---------------------------- MODULE Spec2Model ----------------------------
(***************************************************************************)
(* Model of the LIRA tiled-inference pipeline:                             *)
(*   lira_static/denoise_predictions.py  (denoise_predictions, cost,       *)
(*                                        get_neighbors, kronecker_delta)  *)
(*   lira_static/generate_predictions.py (generate_predictions)            *)
(*                                                                         *)
(* numpy arrays are objects: a name holds a reference into `heap`, so that *)
(* aliasing (src = dst) and fresh allocation (np.zeros_like) are distinct. *)
(* Indices are 0-based as in the source.                                   *)
(***************************************************************************)
EXTENDS Integers, Sequences, FiniteSets, TLC

(* ------------------------------ bounds -------------------------------- *)
\* Largest height / width of an input grid of the general input family.
MaxH == 2
MaxW == 3
\* Largest label value in an input grid of the general input family.
MaxLabel == 2
\* Largest class_n argument (the smallest is -1, see ClassNs).
MaxClassN == 3
\* Largest epochs argument.
MaxEpochs == 2
\* Side of the largest square grid of the two-label input family.
WideDim == 3

(* ------------------------------ arrays -------------------------------- *)
Cells(hh, ww) == (0 .. hh - 1) \X (0 .. ww - 1)

\* A 2-d numpy array: its shape and its cells.
Array(hh, ww, f) == [shape |-> <<hh, ww>>, at |-> f]

\* np.zeros_like(a): a new array of a's shape filled with 0.
zeros_like_T(a) ==
    Array(a.shape[2], a.shape[1], [p \in Cells(a.shape[2], a.shape[1]) |-> 0])

zeros_like(a) ==
    Array(a.shape[1], a.shape[2], [p \in Cells(a.shape[1], a.shape[2]) |-> 0])

\* np.zeros((n)): n >= 0 gives a vector of n zeros (indices 0 .. n-1).
zeros(n) == [k \in 0 .. n - 1 |-> 0]

(* --------------------------- kronecker_delta --------------------------- *)
\* np.logical_not(a-b).astype(int): 1 when a - b is 0 and 0 otherwise.
kronecker_delta(a, b) == IF a - b = 0 THEN 1 ELSE 0

(* ----------------------------- get_neighbors --------------------------- *)
\* The list with its last pair mistyped: (i+1, j) twice, (i+1, j+1) missing.
AllAdjacentTypo(ci, cj) ==
    << <<ci - 1, cj - 1>>, <<ci - 1, cj>>, <<ci - 1, cj + 1>>,
       <<ci, cj - 1>>, <<ci, cj + 1>>,
       <<ci + 1, cj - 1>>, <<ci + 1, cj>>, <<ci + 1, cj>> >>

\* The list of all 8 adjacent index pairs, in the order the source lists them.
AllAdjacent(ci, cj) ==
    << <<ci - 1, cj - 1>>, <<ci - 1, cj>>, <<ci - 1, cj + 1>>,
       <<ci, cj - 1>>, <<ci, cj + 1>>,
       <<ci + 1, cj - 1>>, <<ci + 1, cj>>, <<ci + 1, cj + 1>> >>

\* del s[k] (k is 1-based here).
DelAt(s, k) == SubSeq(s, 1, k - 1) \o SubSeq(s, k + 1, Len(s))

\* The test of the source's `if`: the pair lies outside the h x w grid.
Outside(p, hh, ww) ==
    p[1] < 0 \/ p[1] > hh - 1 \/ p[2] < 0 \/ p[2] > ww - 1

\* The backwards loop over neighbor_i = k-1, k-2, ..., 0 deleting in place.
RECURSIVE PruneBackwards(_, _, _, _)
PruneBackwards(ns, k, hh, ww) ==
    IF k < 1 THEN ns
    ELSE PruneBackwards(IF Outside(ns[k], hh, ww) THEN DelAt(ns, k) ELSE ns,
                        k - 1, hh, ww)

get_neighbors(ci, cj, hh, ww) ==
    PruneBackwards(AllAdjacent(ci, cj), Len(AllAdjacent(ci, cj)), hh, ww)

(* --------------------------------- cost -------------------------------- *)
RECURSIVE SumSeq(_)
SumSeq(s) == IF s = <<>> THEN 0 ELSE Head(s) + SumSeq(Tail(s))

\* cost as it would be with the unary term dropped.
costNoUnary(dst_val, src_val, srcArr, nbs) ==
    LET neighbor_vals == [k \in 1 .. Len(nbs) |-> srcArr.at[nbs[k]]]
    IN  -(10 * SumSeq([k \in 1 .. Len(nbs) |->
                          kronecker_delta(dst_val, neighbor_vals[k])]))

\* cost with the two weights exchanged (10 on the cell, 1 on the neighbours).
costSwapped(dst_val, src_val, srcArr, nbs) ==
    LET neighbor_vals == [k \in 1 .. Len(nbs) |-> srcArr.at[nbs[k]]]
    IN  -(10 * kronecker_delta(dst_val, src_val)
          + 1 * SumSeq([k \in 1 .. Len(nbs) |->
                           kronecker_delta(dst_val, neighbor_vals[k])]))

\* The cost of placing dst_val at a cell whose value is src_val (line 136).
cost(dst_val, src_val, srcArr, nbs) ==
    LET neighbor_vals == [k \in 1 .. Len(nbs) |-> srcArr.at[nbs[k]]]
    IN  -(1 * kronecker_delta(dst_val, src_val)
          + 10 * SumSeq([k \in 1 .. Len(nbs) |->
                            kronecker_delta(dst_val, neighbor_vals[k])]))

(* -------------------------------- argmin ------------------------------- *)
\* A scan that keeps the LAST minimum (<= instead of <).
RECURSIVE ScanLast(_, _, _, _)
ScanLast(c, n, k, best) ==
    IF k > n - 1 THEN best
    ELSE ScanLast(c, n, k + 1, IF c[k] <= c[best] THEN k ELSE best)

argminLast(c, n) == ScanLast(c, n, 1, 0)

\* np.argmin over a vector of n >= 1 entries: the first index of the minimum.
RECURSIVE ScanFirst(_, _, _, _)
ScanFirst(c, n, k, best) ==
    IF k > n - 1 THEN best
    ELSE ScanFirst(c, n, k + 1, IF c[k] < c[best] THEN k ELSE best)

\* The index counted from 1.
argminOneBased(c, n) == ScanFirst(c, n, 1, 0) + 1

argmin(c, n) == ScanFirst(c, n, 1, 0)

(* -------------------------------- state -------------------------------- *)
VARIABLES
    heap,       \* the numpy arrays allocated so far; heap[1] is the caller's
    src,        \* denoise_predictions: reference held by the name src
    dst,        \* reference held by the name dst, 0 while dst is unbound
    class_n,    \* argument
    epochs,     \* argument
    h, w,       \* h, w = src.shape
    costs,      \* the vector np.zeros((class_n)), reused by every cell
    epoch,      \* loop variable of `for epoch in range(epochs)`
    i, j,       \* loop variables of the cell loops
    neighbors,  \* result of the last get_neighbors call
    pc,         \* position in denoise_predictions
    result,     \* reference returned, 0 when none
    start       \* history: the value of the array src names, as it was when
                \* the current (or last) epoch began

dvars == <<heap, src, dst, class_n, epochs, h, w, costs, epoch, i, j,
           neighbors, pc, result, start>>

\* generate_predictions
VARIABLES
    imgs,                 \* img_hf: the archived images, by their pixel shape
    mb_n,                 \* mini batch size (100 in the source, line 42; an
                          \* input here so that a block takes several batches)
    predictions_hf,       \* the predictions archive: key -> grid written
    img_i,                \* loop variable of the image loop
    img_h, img_w,         \* shape of the padded image
    img_divide_factor,    \* None until the first image has set it
    resize_factor,        \* None until the first image has set it
    predictions,          \* the list of row bands, then the assembled grid
    img_sub_i,            \* subsection counter (display only)
    row_i, col_i,         \* loop variables of the block loops
    overlay_prediction_i, \* where the last batch left off
    sub_img,              \* the block returned by get_next_subsection
    overlay_predictions,  \* the block's flat label vector
    subs,                 \* the block's tiles as a flat vector
    sub_i,                \* loop variable of the batch loop
    gpc,                  \* position in generate_predictions
    policy,               \* the partition-factor policy as far as consulted
    classified            \* history: tile -> label the classifier returned
                          \* for it, for the tiles of the current image

gvars == <<imgs, mb_n, predictions_hf, img_i, img_h, img_w, img_divide_factor,
           resize_factor, predictions, img_sub_i, row_i, col_i,
           overlay_prediction_i, sub_img, overlay_predictions, subs, sub_i,
           gpc, policy, classified>>

\* The interactive labeller (slide_labeller): the InteractiveGUI object and
\* its canvas, the loops of lira_live1.main; and the arguments and result of
\* dataset_augmenter.balance_dataset.
VARIABLES
    gui_predictions,        \* InteractiveGUI: self.predictions
    flag_refresh,           \* self.flag_refresh
    flag_next,              \* self.flag_next
    flag_quit,              \* self.flag_quit
    alpha,                  \* self.alpha
    alpha_slider,           \* the value of self.alpha_slider
    bulk_select_initial,    \* <<self.bulk_select_initial_x, .._y>>
    selected_prediction_i,  \* <<self.selected_prediction_i_x1, _y1, _x2, _y2>>
    bulk_select_rect,       \* canvas item "bulk_select_rect", <<>> when absent
    outline_rect,           \* canvas item "outline_rect", <<>> when absent
    window,                 \* "none", "open" or "destroyed"
    dragging,               \* mouse button 1 is held down over the canvas
    prev_img_i,             \* lira_live1.main: the saved position
    prev_sub_i,
    live_sub_i,             \* main's loop variable sub_i
    live_img_i,             \* main's loop variable img_i
    lpc,                    \* main's position
    visited,                \* history: the pairs shown or skipped, in order
    bal_x,                  \* balance_dataset: argument x
    bal_y,                  \* argument y
    bal_class_n,            \* argument class_n
    balanced,               \* the returned (balanced_x, balanced_y)
    bpc                     \* balance_dataset's position

guivars == <<gui_predictions, flag_refresh, flag_next, flag_quit, alpha,
             alpha_slider, bulk_select_initial, selected_prediction_i,
             bulk_select_rect, outline_rect, window, dragging>>

livevars == <<prev_img_i, prev_sub_i, live_sub_i, live_img_i, lpc, visited>>

balvars == <<bal_x, bal_y, bal_class_n, balanced, bpc>>

xvars == <<guivars, livevars, balvars>>

vars == <<dvars, gvars, xvars>>

(* ------------------------------- inputs -------------------------------- *)
GridsOf(hs, ws, labels) ==
    UNION { UNION { { Array(hh, ww, f) : f \in [Cells(hh, ww) -> labels] }
                    : ww \in ws } : hh \in hs }

\* General family: every shape up to MaxH x MaxW (also empty ones), labels
\* 0 .. MaxLabel, so that a grid may hold labels outside [0, class_n).
GeneralGrids == GridsOf(0 .. MaxH, 0 .. MaxW, 0 .. MaxLabel)

\* Two-label family on larger grids (interior cells with 8 neighbours).
WideGrids == GridsOf(1 .. WideDim, 1 .. WideDim, 0 .. 1)

ClassNs == -1 .. MaxClassN

\* Python's None in the two factor variables (lines 58 and 61): a value
\* that no partition-factor policy answers.
None == -2

\* The generator's variables while denoise_predictions is called on its own.
GenIdle ==
    /\ imgs = <<>>
    /\ mb_n = 0
    /\ predictions_hf = <<>>
    /\ img_i = 0
    /\ img_h = 0
    /\ img_w = 0
    /\ img_divide_factor = None
    /\ resize_factor = None
    /\ predictions = <<>>
    /\ img_sub_i = 0
    /\ row_i = 0
    /\ col_i = 0
    /\ overlay_prediction_i = 0
    /\ sub_img = <<>>
    /\ overlay_predictions = <<>>
    /\ subs = <<>>
    /\ sub_i = 0
    /\ policy = <<>>
    /\ classified = <<>>

\* No window is open, lira_live1.main is not running.
GuiIdle ==
    /\ gui_predictions = <<>>
    /\ flag_refresh = FALSE
    /\ flag_next = FALSE
    /\ flag_quit = FALSE
    /\ alpha = 0
    /\ alpha_slider = 0
    /\ bulk_select_initial = <<0, 0>>
    /\ selected_prediction_i = <<0, 0, 0, 0>>
    /\ bulk_select_rect = <<>>
    /\ outline_rect = <<>>
    /\ window = "none"
    /\ dragging = FALSE

LiveIdle ==
    /\ prev_img_i = 0
    /\ prev_sub_i = 0
    /\ live_sub_i = 0
    /\ live_img_i = 0
    /\ lpc = "none"
    /\ visited = <<>>

\* balance_dataset is not called.
BalIdle ==
    /\ bal_x = <<>>
    /\ bal_y = <<>>
    /\ bal_class_n = 0
    /\ balanced = <<>>
    /\ bpc = "none"

InitCall(grid, cn, ep) ==
    /\ GenIdle
    /\ GuiIdle
    /\ LiveIdle
    /\ BalIdle
    /\ gpc = "none"
    /\ heap = <<grid>>
    /\ src = 1
    /\ dst = 0
    /\ class_n = cn
    /\ epochs = ep
    /\ h = 0
    /\ w = 0
    /\ costs = <<>>
    /\ epoch = 0
    /\ i = 0
    /\ j = 0
    /\ neighbors = <<>>
    /\ pc = "call"
    /\ result = 0
    /\ start = grid

Init ==
    \/ \E grid \in GeneralGrids, cn \in ClassNs, ep \in 0 .. MaxEpochs :
          InitCall(grid, cn, ep)
    \/ \E grid \in WideGrids, cn \in 2 .. MaxClassN, ep \in 1 .. MaxEpochs :
          InitCall(grid, cn, ep)

(* ------------------------- denoise_predictions ------------------------- *)
\* Lines 27-29: h, w = src.shape; costs = np.zeros((class_n)).
\* np.zeros of a negative dimension raises ValueError.
Enter ==
    /\ pc = "call"
    /\ h' = heap[src].shape[1]
    /\ w' = heap[src].shape[2]
    /\ IF class_n < 0
         THEN /\ pc' = "ValueError"
              /\ costs' = costs
         ELSE /\ pc' = "epoch"
              /\ costs' = zeros(class_n)
    /\ UNCHANGED gvars
    /\ UNCHANGED <<heap, src, dst, class_n, epochs, epoch, i, j, neighbors,
                   result, start>>
    /\ UNCHANGED xvars

\* Line 41 as it would be if dst aliased src instead of a fresh array.
BeginEpochAlias ==
    /\ pc = "epoch"
    /\ epoch < epochs
    /\ dst' = src
    /\ i' = 0
    /\ j' = 0
    /\ pc' = "cells"
    /\ start' = heap[src]
    /\ UNCHANGED gvars
    /\ UNCHANGED <<heap, src, class_n, epochs, h, w, costs, epoch, neighbors,
                   result>>
    /\ UNCHANGED xvars

\* Line 41 with the shape transposed.
BeginEpochT ==
    /\ pc = "epoch"
    /\ epoch < epochs
    /\ heap' = Append(heap, zeros_like_T(heap[src]))
    /\ dst' = Len(heap) + 1
    /\ i' = 0
    /\ j' = 0
    /\ pc' = "cells"
    /\ start' = heap[src]
    /\ UNCHANGED gvars
    /\ UNCHANGED <<src, class_n, epochs, h, w, costs, epoch, neighbors,
                   result>>
    /\ UNCHANGED xvars

\* Lines 37-44: the next value of `epoch` exists; dst = np.zeros_like(src).
BeginEpoch ==
    /\ pc = "epoch"
    /\ epoch < epochs
    /\ heap' = Append(heap, zeros_like(heap[src]))
    /\ dst' = Len(heap) + 1
    /\ i' = 0
    /\ j' = 0
    /\ pc' = "cells"
    /\ start' = heap[src]
    /\ UNCHANGED gvars
    /\ UNCHANGED <<src, class_n, epochs, h, w, costs, epoch, neighbors,
                   result>>
    /\ UNCHANGED xvars

\* The costs vector after the loop of lines 55-56 for cell (ci, cj).
CellCosts(ci, cj) ==
    [class_i \in 0 .. class_n - 1 |->
        cost(class_i, heap[src].at[<<ci, cj>>], heap[src],
             get_neighbors(ci, cj, h, w))]

\* The next (i, j) of the nested range loops; i = h when they are exhausted.
NextI(ci, cj) == IF cj + 1 < w THEN ci ELSE ci + 1
NextJ(ci, cj) == IF cj + 1 < w THEN cj + 1 ELSE 0

\* Lines 45-61 for one cell: neighbours, the cost of every class, the write
\* of the argmin into dst. np.argmin of an empty vector raises ValueError.
Cell ==
    /\ pc = "cells"
    /\ i < h
    /\ w > 0
    /\ neighbors' = get_neighbors(i, j, h, w)
    /\ costs' = CellCosts(i, j)
    /\ IF class_n = 0
         THEN /\ pc' = "ValueError"
              /\ UNCHANGED <<heap, i, j>>
         ELSE /\ heap' = [heap EXCEPT ![dst].at[<<i, j>>] =
                              argmin(CellCosts(i, j), class_n)]
              /\ i' = NextI(i, j)
              /\ j' = NextJ(i, j)
              /\ pc' = "cells"
    /\ UNCHANGED gvars
    /\ UNCHANGED <<src, dst, class_n, epochs, h, w, epoch, result, start>>
    /\ UNCHANGED xvars

\* Line 66 and the loop increment: the cell loops are exhausted, src = dst.
EndEpoch ==
    /\ pc = "cells"
    /\ (i >= h \/ w = 0)
    /\ src' = dst
    /\ epoch' = epoch + 1
    /\ pc' = "epoch"
    /\ UNCHANGED gvars
    /\ UNCHANGED <<heap, dst, class_n, epochs, h, w, costs, i, j, neighbors,
                   result, start>>
    /\ UNCHANGED xvars

\* Line 67 as it would be with a convergence check: the loop is also left
\* once a pass has produced a grid equal to the one it read.
ReturnEarly ==
    /\ pc = "epoch"
    /\ (epoch >= epochs \/ (epoch >= 1 /\ heap[src] = start))
    /\ IF dst = 0
         THEN /\ pc' = "UnboundLocalError"
              /\ result' = result
         ELSE /\ pc' = "returned"
              /\ result' = dst
    /\ UNCHANGED gvars
    /\ UNCHANGED <<heap, src, dst, class_n, epochs, h, w, costs, epoch, i, j,
                   neighbors, start>>
    /\ UNCHANGED xvars

\* Line 67: `return dst`; the name dst is unbound when the loop body never ran.
Return ==
    /\ pc = "epoch"
    /\ epoch >= epochs
    /\ IF dst = 0
         THEN /\ pc' = "UnboundLocalError"
              /\ result' = result
         ELSE /\ pc' = "returned"
              /\ result' = dst
    /\ UNCHANGED gvars
    /\ UNCHANGED <<heap, src, dst, class_n, epochs, h, w, costs, epoch, i, j,
                   neighbors, start>>
    /\ UNCHANGED xvars

Next == Enter \/ BeginEpoch \/ Cell \/ EndEpoch \/ Return

Spec == Init /\ [][Next]_vars

(* ------------------------ generate_predictions ------------------------- *)
\* Lines 36-47, 73: the tile size, the number of denoising epochs and the
\* number of classifications.
sub_h == 80
sub_w == 145
PipelineEpochs == 2
ClassificationsLen == 7

\* Bounds of the pipeline's inputs: images of at most MaxRows x MaxCols tiles
\* whose pixel shape falls short of a whole tile by at most MaxPad, at most
\* MaxImgs of them, a batch size of at most MaxMbN, a partition factor of at
\* most MaxFactor and classifier labels 0 .. MaxTileLabel.
MaxRows == 3
MaxCols == 2
MaxPad == 1
MaxImgs == 1
MaxMbN == 2
MaxFactor == 2
MaxTileLabel == 1

ImgHeights == { r * sub_h - d : r \in 1 .. MaxRows, d \in 0 .. MaxPad }
ImgWidths == { c * sub_w - d : c \in 1 .. MaxCols, d \in 0 .. MaxPad }
ImgShapes == ImgHeights \X ImgWidths

RECURSIVE SeqsUpTo(_, _)
SeqsUpTo(S, n) ==
    IF n = 0 THEN { <<>> }
    ELSE SeqsUpTo(S, n - 1)
         \cup { Append(q, x) : q \in { t \in SeqsUpTo(S, n - 1) : Len(t) = n - 1 }, x \in S }

\* pad_img: each dimension rounded up to the next multiple of the tile size
\* (specification 4.1); only the shape is modelled, a tile is named by its
\* (row, column) in the padded image.
pad_img(ih, iw, sh, sw) ==
    << ((ih + sh - 1) \div sh) * sh, ((iw + sw - 1) \div sw) * sw >>

\* get_relative_factor(dim, override): an override bypasses the computation
\* (specification 6); pol is the policy's value for dim.
get_relative_factor(pol, override) ==
    IF override # None THEN override ELSE pol

\* One axis of the partition (specification 4.2): n tiles in f groups of
\* n \div f, the last group taking the remainder. First tile and tile count
\* of group k.
GroupStart(n, f, k) == k * (n \div f)
GroupSize(n, f, k) == IF k = f - 1 THEN n - k * (n \div f) ELSE n \div f

\* get_next_subsection: the block (row_i, col_i) of the padded image, as its
\* pixel shape and the tile coordinates of its top-left tile.
get_next_subsection(ri, ci, ih, iw, sh, sw, factor) ==
    [shape |-> << GroupSize(ih \div sh, factor, ri) * sh,
                  GroupSize(iw \div sw, factor, ci) * sw >>,
     origin |-> << GroupStart(ih \div sh, factor, ri),
                   GroupStart(iw \div sw, factor, ci) >>]

\* get_subsections: the block's tiles as a matrix (tile rows x tile columns).
get_subsections(sh, sw, block) ==
    Array(block.shape[1] \div sh, block.shape[2] \div sw,
          [p \in Cells(block.shape[1] \div sh, block.shape[2] \div sw) |->
              << block.origin[1] + p[1], block.origin[2] + p[2] >>])

\* np.reshape(subs, (-1, sub_h, sub_w, 1)) of line 188: the matrix of tiles
\* flattened row-major into a vector (indices 0 .. n-1).
Flatten(a) ==
    [k \in 0 .. a.shape[1] * a.shape[2] - 1 |->
        a.at[<< k \div a.shape[2], k % a.shape[2] >>]]

\* A reshape that fills the matrix column by column (Fortran order).
reshapeColumnMajor(v, r, c) ==
    Array(r, c, [p \in Cells(r, c) |-> v[p[2] * r + p[1]]])

\* np.reshape(v, (r, c)) of line 210: row-major.
reshape(v, r, c) ==
    Array(r, c, [p \in Cells(r, c) |-> v[p[1] * c + p[2]]])

\* v with v[from : from + n] = vals (a slice assignment).
SliceAssign(v, from, n, vals) ==
    [k \in DOMAIN v |-> IF k >= from /\ k < from + n THEN vals[k - from] ELSE v[k]]

\* get_concatenated_row((a, b)): b to the right of a; the row counts must
\* agree (specification 4.4, step 2), which RowsAgree states.
RowsAgree(a, b) == a.shape[1] = b.shape[1]

get_concatenated_row(a, b) ==
    Array(a.shape[1], a.shape[2] + b.shape[2],
          [p \in Cells(a.shape[1], a.shape[2] + b.shape[2]) |->
              IF p[2] < a.shape[2] THEN a.at[p]
              ELSE b.at[<< p[1], p[2] - a.shape[2] >>]])

\* b below a.
StackBelow(a, b) ==
    Array(a.shape[1] + b.shape[1], a.shape[2],
          [p \in Cells(a.shape[1] + b.shape[1], a.shape[2]) |->
              IF p[1] < a.shape[1] THEN a.at[p]
              ELSE b.at[<< p[1] - a.shape[1], p[2] >>]])

\* get_concatenated_col(bands): the row bands top to bottom; the list must
\* not be empty and the column counts must agree (specification 4.4, step 3),
\* which ColsAgree states.
ColsAgree(bands) ==
    /\ bands # <<>>
    /\ \A k \in 1 .. Len(bands) : bands[k].shape[2] = bands[1].shape[2]

RECURSIVE StackAll(_, _)
StackAll(acc, bands) ==
    IF bands = <<>> THEN acc ELSE StackAll(StackBelow(acc, Head(bands)), Tail(bands))

get_concatenated_col(bands) == StackAll(Head(bands), Tail(bands))

\* The state before the first image is read: nothing written, no factor
\* computed yet (lines 57-61), the denoiser not called.
GenStart ==
    /\ mb_n \in 1 .. MaxMbN
    /\ predictions_hf = <<>>
    /\ img_i = 0
    /\ img_h = 0
    /\ img_w = 0
    /\ img_divide_factor = None
    /\ resize_factor = None
    /\ predictions = <<>>
    /\ img_sub_i = 0
    /\ row_i = 0
    /\ col_i = 0
    /\ overlay_prediction_i = 0
    /\ sub_img = <<>>
    /\ overlay_predictions = <<>>
    /\ subs = <<>>
    /\ sub_i = 0
    /\ gpc = "image"
    /\ policy = <<>>
    /\ classified = <<>>
    /\ heap = <<>>
    /\ src = 0
    /\ dst = 0
    /\ class_n = 0
    /\ epochs = 0
    /\ h = 0
    /\ w = 0
    /\ costs = <<>>
    /\ epoch = 0
    /\ i = 0
    /\ j = 0
    /\ neighbors = <<>>
    /\ pc = "idle"
    /\ result = 0
    /\ start = <<>>
    /\ GuiIdle
    /\ LiveIdle
    /\ BalIdle

InitGen ==
    /\ imgs \in SeqsUpTo(ImgShapes, MaxImgs) \ { <<>> }
    /\ GenStart

\* Archives of one or two small images, one tile wide.
MaxRunRows == 2
MaxRunImgs == 2
RunShapes == { << r * sub_h - d, sub_w >> : r \in 1 .. MaxRunRows, d \in 0 .. MaxPad }

InitRun ==
    /\ imgs \in SeqsUpTo(RunShapes, MaxRunImgs) \ { <<>> }
    /\ GenStart

\* The values the partition-factor policy may answer: the positive factors
\* up to MaxFactor, and 0 and -1 (a broken configuration).
Factors == -1 .. MaxFactor

\* The policy is deterministic and non-decreasing in the image dimension
\* (specification 6).
Monotone(f) == \A x, y \in DOMAIN f : x <= y => f[x] <= f[y]

\* The policy as known once it has answered polRaw for the archived height
\* rawH and pol for the padded height padH.
PolicyWith(rawH, padH, polRaw, pol) == (rawH :> polRaw) @@ (padH :> pol) @@ policy

\* Lines 107-150: the next image is read and padded, the factors are taken
\* from get_relative_factor with the current values as overrides, the list
\* of row bands is created. pol is what the policy answers for img_h; polRaw
\* is what it answers for the archived image's own height (the value is
\* recorded in `policy`, it is not used here).
LoadImage ==
    /\ gpc = "image"
    /\ img_i < Len(imgs)
    /\ LET padded == pad_img(imgs[img_i + 1][1], imgs[img_i + 1][2], sub_h, sub_w)
           rawH == imgs[img_i + 1][1]
       IN  /\ img_h' = padded[1]
           /\ img_w' = padded[2]
           /\ \E pol \in Factors, polRaw \in Factors :
                 /\ rawH = padded[1] => polRaw = pol
                 /\ rawH \in DOMAIN policy => polRaw = policy[rawH]
                 /\ padded[1] \in DOMAIN policy => pol = policy[padded[1]]
                 /\ Monotone(PolicyWith(rawH, padded[1], polRaw, pol))
                 /\ policy' = PolicyWith(rawH, padded[1], polRaw, pol)
                 /\ img_divide_factor' = get_relative_factor(pol, img_divide_factor)
                 /\ resize_factor' = get_relative_factor(pol, resize_factor)
                 /\ predictions' =
                       [k \in 1 .. get_relative_factor(pol, img_divide_factor) |-> <<>>]
    /\ img_sub_i' = 0
    /\ row_i' = 0
    /\ col_i' = 0
    /\ classified' = <<>>
    /\ gpc' = "block"
    /\ UNCHANGED dvars
    /\ UNCHANGED <<imgs, mb_n, predictions_hf, img_i, overlay_prediction_i,
                   sub_img, overlay_predictions, subs, sub_i>>
    /\ UNCHANGED xvars

BeginBlockDiag ==
    /\ gpc = "block"
    /\ row_i < img_divide_factor
    /\ overlay_prediction_i' = 0
    /\ LET blk == get_next_subsection(row_i, row_i, img_h, img_w, sub_h, sub_w,
                                      img_divide_factor)
       IN  /\ sub_img' = blk
           /\ overlay_predictions' =
                 zeros((blk.shape[1] \div sub_h) * (blk.shape[2] \div sub_w))
           /\ subs' = Flatten(get_subsections(sub_h, sub_w, blk))
    /\ sub_i' = 0
    /\ gpc' = "batch"
    /\ UNCHANGED dvars
    /\ UNCHANGED <<imgs, mb_n, predictions_hf, img_i, img_h, img_w,
                   img_divide_factor, resize_factor, predictions, img_sub_i,
                   row_i, col_i, policy, classified>>
    /\ UNCHANGED xvars

\* Lines 152-188: the next block (row_i, col_i): its sub-image, the zeroed
\* label vector, its tiles as a flat vector.
BeginBlock ==
    /\ gpc = "block"
    /\ row_i < img_divide_factor
    /\ overlay_prediction_i' = 0
    /\ LET blk == get_next_subsection(row_i, col_i, img_h, img_w, sub_h, sub_w,
                                      img_divide_factor)
       IN  /\ sub_img' = blk
           /\ overlay_predictions' =
                 zeros((blk.shape[1] \div sub_h) * (blk.shape[2] \div sub_w))
           /\ subs' = Flatten(get_subsections(sub_h, sub_w, blk))
    /\ sub_i' = 0
    /\ gpc' = "batch"
    /\ UNCHANGED dvars
    /\ UNCHANGED <<imgs, mb_n, predictions_hf, img_i, img_h, img_w,
                   img_divide_factor, resize_factor, predictions, img_sub_i,
                   row_i, col_i, policy, classified>>
    /\ UNCHANGED xvars

\* len(subs), and the length of the slice subs[sub_i : sub_i + mb_n].
LenSubs == Cardinality(DOMAIN subs)
BatchLen == IF sub_i + mb_n <= LenSubs THEN mb_n ELSE LenSubs - sub_i

BatchAdvanceMbN ==
    /\ gpc = "batch"
    /\ sub_i < LenSubs
    /\ \E labels \in [0 .. BatchLen - 1 -> 0 .. MaxTileLabel] :
          /\ overlay_predictions' =
                SliceAssign(overlay_predictions, overlay_prediction_i, BatchLen, labels)
          /\ classified' =
                [t \in { subs[sub_i + k] : k \in 0 .. BatchLen - 1 } |->
                    labels[CHOOSE k \in 0 .. BatchLen - 1 : subs[sub_i + k] = t]]
                @@ classified
    /\ overlay_prediction_i' = overlay_prediction_i + mb_n
    /\ sub_i' = sub_i + mb_n
    /\ UNCHANGED dvars
    /\ UNCHANGED <<imgs, mb_n, predictions_hf, img_i, img_h, img_w,
                   img_divide_factor, resize_factor, predictions, img_sub_i,
                   row_i, col_i, sub_img, subs, gpc, policy>>
    /\ UNCHANGED xvars

\* Lines 193-205: one batch is sliced off, classified (the classifier answers
\* one label per tile) and stored at overlay_prediction_i.
Batch ==
    /\ gpc = "batch"
    /\ sub_i < LenSubs
    /\ \E labels \in [0 .. BatchLen - 1 -> 0 .. MaxTileLabel] :
          /\ overlay_predictions' =
                SliceAssign(overlay_predictions, overlay_prediction_i, BatchLen, labels)
          /\ classified' =
                [t \in { subs[sub_i + k] : k \in 0 .. BatchLen - 1 } |->
                    labels[CHOOSE k \in 0 .. BatchLen - 1 : subs[sub_i + k] = t]]
                @@ classified
    /\ overlay_prediction_i' = overlay_prediction_i + BatchLen
    /\ sub_i' = sub_i + mb_n
    /\ UNCHANGED dvars
    /\ UNCHANGED <<imgs, mb_n, predictions_hf, img_i, img_h, img_w,
                   img_divide_factor, resize_factor, predictions, img_sub_i,
                   row_i, col_i, sub_img, subs, gpc, policy>>
    /\ UNCHANGED xvars

\* The failure caught and the image skipped.
BatchFailsSkipsImage ==
    /\ gpc = "batch"
    /\ sub_i < LenSubs
    /\ gpc' = "image"
    /\ img_i' = img_i + 1
    /\ UNCHANGED dvars
    /\ UNCHANGED <<imgs, mb_n, predictions_hf, img_h, img_w,
                   img_divide_factor, resize_factor, predictions, img_sub_i,
                   row_i, col_i, overlay_prediction_i, sub_img,
                   overlay_predictions, subs, sub_i, policy, classified>>
    /\ UNCHANGED xvars

\* Line 204 when classifier.classify raises: nothing catches the exception,
\* so it leaves generate_predictions (the `with` blocks close the archives).
BatchFails ==
    /\ gpc = "batch"
    /\ sub_i < LenSubs
    /\ gpc' = "ClassifierError"
    /\ UNCHANGED dvars
    /\ UNCHANGED <<imgs, mb_n, predictions_hf, img_i, img_h, img_w,
                   img_divide_factor, resize_factor, predictions, img_sub_i,
                   row_i, col_i, overlay_prediction_i, sub_img,
                   overlay_predictions, subs, sub_i, policy, classified>>
    /\ UNCHANGED xvars

\* Lines 218-221: the block starts its row band or is joined to its right.
PlaceBlock(bands, ri, ci, block) ==
    IF ci = 0 THEN [bands EXCEPT ![ri + 1] = block]
    ELSE [bands EXCEPT ![ri + 1] = get_concatenated_row(bands[ri + 1], block)]

\* Lines 207-226: the batch loop is exhausted; the label vector is reshaped
\* to the block's tile shape and placed into its row band; next block.
EndBlock ==
    /\ gpc = "batch"
    /\ sub_i >= LenSubs
    /\ LET block == reshape(overlay_predictions, sub_img.shape[1] \div sub_h,
                            sub_img.shape[2] \div sub_w)
       IN  /\ overlay_predictions' = block
           /\ IF col_i # 0 /\ ~RowsAgree(predictions[row_i + 1], block)
                THEN /\ gpc' = "ValueError"
                     /\ UNCHANGED <<predictions, img_sub_i, col_i, row_i>>
                ELSE /\ predictions' = PlaceBlock(predictions, row_i, col_i, block)
                     /\ img_sub_i' = img_sub_i + 1
                     /\ col_i' = IF col_i + 1 < img_divide_factor THEN col_i + 1 ELSE 0
                     /\ row_i' = IF col_i + 1 < img_divide_factor THEN row_i ELSE row_i + 1
                     /\ gpc' = "block"
    /\ UNCHANGED dvars
    /\ UNCHANGED <<imgs, mb_n, predictions_hf, img_i, img_h, img_w,
                   img_divide_factor, resize_factor, overlay_prediction_i,
                   sub_img, subs, sub_i, policy, classified>>
    /\ UNCHANGED xvars

\* An empty list of row bands joined into an empty grid.
LenientCol(bands) ==
    IF bands = <<>> THEN Array(0, 0, <<>>) ELSE get_concatenated_col(bands)

AssembleLenient ==
    /\ gpc = "block"
    /\ row_i >= img_divide_factor
    /\ IF predictions # <<>> /\ ~ColsAgree(predictions)
         THEN /\ gpc' = "ValueError"
              /\ UNCHANGED predictions
              /\ UNCHANGED dvars
         ELSE /\ predictions' = LenientCol(predictions)
              /\ heap' = << LenientCol(predictions) >>
              /\ src' = 1
              /\ dst' = 0
              /\ class_n' = ClassificationsLen
              /\ epochs' = PipelineEpochs
              /\ h' = 0
              /\ w' = 0
              /\ costs' = <<>>
              /\ epoch' = 0
              /\ i' = 0
              /\ j' = 0
              /\ neighbors' = <<>>
              /\ pc' = "call"
              /\ result' = 0
              /\ start' = LenientCol(predictions)
              /\ gpc' = "denoise"
    /\ UNCHANGED <<imgs, mb_n, predictions_hf, img_i, img_h, img_w,
                   img_divide_factor, resize_factor, img_sub_i, row_i, col_i,
                   overlay_prediction_i, sub_img, overlay_predictions, subs,
                   sub_i, policy, classified>>
    /\ UNCHANGED xvars

\* Lines 228-239: the block loops are exhausted; the row bands are joined
\* into one grid, which is handed to denoise_predictions.
Assemble ==
    /\ gpc = "block"
    /\ row_i >= img_divide_factor
    /\ IF ~ColsAgree(predictions)
         THEN /\ gpc' = "ValueError"
              /\ UNCHANGED predictions
              /\ UNCHANGED dvars
         ELSE /\ predictions' = get_concatenated_col(predictions)
              /\ heap' = << get_concatenated_col(predictions) >>
              /\ src' = 1
              /\ dst' = 0
              /\ class_n' = ClassificationsLen
              /\ epochs' = PipelineEpochs
              /\ h' = 0
              /\ w' = 0
              /\ costs' = <<>>
              /\ epoch' = 0
              /\ i' = 0
              /\ j' = 0
              /\ neighbors' = <<>>
              /\ pc' = "call"
              /\ result' = 0
              /\ start' = get_concatenated_col(predictions)
              /\ gpc' = "denoise"
    /\ UNCHANGED <<imgs, mb_n, predictions_hf, img_i, img_h, img_w,
                   img_divide_factor, resize_factor, img_sub_i, row_i, col_i,
                   overlay_prediction_i, sub_img, overlay_predictions, subs,
                   sub_i, policy, classified>>
    /\ UNCHANGED xvars

\* The grid written as soon as one epoch has finished.
WriteEarly ==
    /\ gpc = "denoise"
    /\ pc = "epoch"
    /\ epoch >= 1
    /\ predictions' = heap[src]
    /\ predictions_hf' = (img_i :> heap[src]) @@ predictions_hf
    /\ img_i' = img_i + 1
    /\ pc' = "idle"
    /\ gpc' = "image"
    /\ UNCHANGED <<heap, src, dst, class_n, epochs, h, w, costs, epoch, i, j,
                   neighbors, result, start>>
    /\ UNCHANGED <<imgs, mb_n, img_h, img_w, img_divide_factor, resize_factor,
                   img_sub_i, row_i, col_i, overlay_prediction_i, sub_img,
                   overlay_predictions, subs, sub_i, policy, classified>>
    /\ UNCHANGED xvars

\* Lines 239-244: denoise_predictions has returned; its grid is written to
\* the archive under the key str(img_i) (the key is modelled by the number).
Write ==
    /\ gpc = "denoise"
    /\ pc = "returned"
    /\ predictions' = heap[result]
    /\ predictions_hf' = (img_i :> heap[result]) @@ predictions_hf
    /\ img_i' = img_i + 1
    /\ pc' = "idle"
    /\ gpc' = "image"
    /\ UNCHANGED <<heap, src, dst, class_n, epochs, h, w, costs, epoch, i, j,
                   neighbors, result, start>>
    /\ UNCHANGED <<imgs, mb_n, img_h, img_w, img_divide_factor, resize_factor,
                   img_sub_i, row_i, col_i, overlay_prediction_i, sub_img,
                   overlay_predictions, subs, sub_i, policy, classified>>
    /\ UNCHANGED xvars

\* Line 107: the image loop is exhausted; generate_predictions returns.
Finish ==
    /\ gpc = "image"
    /\ img_i >= Len(imgs)
    /\ gpc' = "done"
    /\ UNCHANGED dvars
    /\ UNCHANGED <<imgs, mb_n, predictions_hf, img_i, img_h, img_w,
                   img_divide_factor, resize_factor, predictions, img_sub_i,
                   row_i, col_i, overlay_prediction_i, sub_img,
                   overlay_predictions, subs, sub_i, policy, classified>>
    /\ UNCHANGED xvars

NextGen ==
    \/ LoadImage \/ BeginBlock \/ Batch \/ BatchFails \/ EndBlock \/ Assemble
    \/ Write \/ Finish
    \/ Enter \/ BeginEpoch \/ Cell \/ EndEpoch \/ Return

\* generate_predictions over an archive of images, denoiser included.
SpecGen == InitGen /\ [][NextGen]_vars

\* The same program over archives of up to MaxRunImgs small images.
SpecRun == InitRun /\ [][NextGen]_vars



(* ------------------------ interactive_gui_handler --------------------- *)
\* Bounds of the labelling window: the prediction grid shown has at most
\* MaxGuiRows x MaxGuiCols tiles, the classifier knows GuiClassificationsLen
\* classifications, the alpha slider has the positions 0 .. MaxAlpha.
MaxGuiRows == 1
MaxGuiCols == 2
GuiClassificationsLen == 2
MaxAlpha == 1

\* Canvas coordinates of mouse events: the origin, the pointer dragged out
\* of the canvas (-1), and points on and next to the inner tile boundaries.
GuiXs == {-1, 0} \cup { k * sub_w + d : k \in 1 .. MaxGuiCols - 1, d \in 0 .. 1 }
GuiYs == {-1, 0} \cup { k * sub_h - 1 : k \in 1 .. MaxGuiRows }

\* event.char of key events; "" is a key without a character (Shift).
Keys == {"0", "1", "2", "3", "9", "r", "R", "n", "N", "q", "Q", "x", ""}

\* int(c) for a one-character string: the digits convert, anything else
\* raises ValueError.
DigitChars == <<"0", "1", "2", "3", "4", "5", "6", "7", "8", "9">>
IsDigit(c) == \E k \in 1 .. 10 : DigitChars[k] = c
int(c) == (CHOOSE k \in 1 .. 10 : DigitChars[k] = c) - 1

\* c.upper() for the letters bound to commands.
upper(c) ==
    CASE c = "r" -> "R"
      [] c = "n" -> "N"
      [] c = "q" -> "Q"
      [] OTHER -> c

\* get_rectangle_coordinates with its second branch returning the points in
\* the order given.
get_rectangle_coordinates_unswapped(x1, y1, x2, y2) ==
    IF x1 <= x2 /\ y1 <= y2 THEN <<x1, y1, x2, y2>>
    ELSE IF x1 > x2 /\ y1 <= y2 THEN <<x1, y1, x2, y2>>
    ELSE IF x1 <= x2 /\ y1 > y2 THEN <<x1, y2, x2, y1>>
    ELSE IF x1 > x2 /\ y1 > y2 THEN <<x2, y2, x1, y1>>
    ELSE <<>>

\* get_rectangle_coordinates: one branch per orientation of the two points;
\* <<>> stands for the None returned when no branch applies.
get_rectangle_coordinates(x1, y1, x2, y2) ==
    IF x1 <= x2 /\ y1 <= y2 THEN <<x1, y1, x2, y2>>
    ELSE IF x1 > x2 /\ y1 <= y2 THEN <<x2, y1, x1, y2>>
    ELSE IF x1 <= x2 /\ y1 > y2 THEN <<x1, y2, x2, y1>>
    ELSE IF x1 > x2 /\ y1 > y2 THEN <<x2, y2, x1, y1>>
    ELSE <<>>

\* np.floor(a/b)*b and np.ceil(a/b)*b for whole-valued a and b > 0.
FloorTo(a, b) == (a \div b) * b
CeilTo(a, b) == -(((-a) \div b) * b)

get_outline_rectangle_coordinates(rx1, ry1, rx2, ry2, sh, sw) ==
    << FloorTo(rx1, sw), FloorTo(ry1, sh), CeilTo(rx2, sw), CeilTo(ry2, sh) >>

\* A numpy slice bound k on an axis of length n: negative bounds count from
\* the end, and the result is clipped to 0 .. n.
SliceBound(k, n) ==
    IF k < 0 THEN (IF k + n < 0 THEN 0 ELSE k + n)
    ELSE IF k > n THEN n ELSE k

\* a[y1:y2, x1:x2] = v
AssignBlock(a, y1, y2, x1, x2, v) ==
    Array(a.shape[1], a.shape[2],
          [p \in Cells(a.shape[1], a.shape[2]) |->
              IF /\ p[1] >= SliceBound(y1, a.shape[1])
                 /\ p[1] < SliceBound(y2, a.shape[1])
                 /\ p[2] >= SliceBound(x1, a.shape[2])
                 /\ p[2] < SliceBound(x2, a.shape[2])
                THEN v ELSE a.at[p]])

\* Lines 19-74 and 378-543: the object as constructed, predictions assigned,
\* the window open with the slider at self.alpha.
GuiGrids ==
    { Array(r, c, [p \in Cells(r, c) |-> v]) :
        r \in 1 .. MaxGuiRows, c \in 1 .. MaxGuiCols,
        v \in 0 .. GuiClassificationsLen - 1 }

GuiOpen(grid, al) ==
    /\ gui_predictions = grid
    /\ flag_refresh = FALSE
    /\ flag_next = FALSE
    /\ flag_quit = FALSE
    /\ alpha = al
    /\ alpha_slider = al
    /\ bulk_select_initial = <<0, 0>>
    /\ selected_prediction_i = <<0, 0, 0, 0>>
    /\ bulk_select_rect = <<>>
    /\ outline_rect = <<>>
    /\ window = "open"
    /\ dragging = FALSE

\* denoise_predictions and generate_predictions are not running.
DenoiserIdle ==
    /\ heap = <<>>
    /\ src = 0
    /\ dst = 0
    /\ class_n = 0
    /\ epochs = 0
    /\ h = 0
    /\ w = 0
    /\ costs = <<>>
    /\ epoch = 0
    /\ i = 0
    /\ j = 0
    /\ neighbors = <<>>
    /\ pc = "idle"
    /\ result = 0
    /\ start = <<>>

InitGui ==
    /\ \E grid \in GuiGrids : GuiOpen(grid, 0)
    /\ LiveIdle
    /\ BalIdle
    /\ GenIdle
    /\ gpc = "none"
    /\ DenoiserIdle

\* Lines 138-153.
mouse_left_click(x, y) ==
    /\ window = "open"
    /\ ~dragging
    /\ outline_rect' = <<>>
    /\ bulk_select_initial' = <<x, y>>
    /\ dragging' = TRUE
    /\ UNCHANGED <<gui_predictions, flag_refresh, flag_next, flag_quit, alpha,
                   alpha_slider, selected_prediction_i, bulk_select_rect, window>>

\* Lines 155-175.
mouse_left_move(x, y) ==
    /\ window = "open"
    /\ dragging
    /\ bulk_select_rect' =
          get_rectangle_coordinates(bulk_select_initial[1], bulk_select_initial[2], x, y)
    /\ UNCHANGED dragging
    /\ UNCHANGED <<gui_predictions, flag_refresh, flag_next, flag_quit, alpha,
                   alpha_slider, bulk_select_initial, selected_prediction_i,
                   outline_rect, window>>

\* Lines 177-218.
mouse_left_release(x, y) ==
    /\ window = "open"
    /\ dragging
    /\ LET rect == get_rectangle_coordinates(bulk_select_initial[1],
                                             bulk_select_initial[2], x, y)
           outline == get_outline_rectangle_coordinates(rect[1], rect[2], rect[3],
                                                        rect[4], sub_h, sub_w)
       IN  /\ bulk_select_rect' = <<>>
           /\ outline_rect' = outline
           /\ selected_prediction_i' =
                 << outline[1] \div sub_w, outline[2] \div sub_h,
                    outline[3] \div sub_w, outline[4] \div sub_h >>
    /\ dragging' = FALSE
    /\ UNCHANGED <<gui_predictions, flag_refresh, flag_next, flag_quit, alpha,
                   alpha_slider, bulk_select_initial, window>>

\* Lines 283-298, 300-315, 317-332: the three button handlers.
refresh_session_button_press ==
    /\ alpha' = alpha_slider
    /\ window' = "destroyed"
    /\ flag_refresh' = TRUE
    /\ UNCHANGED <<flag_next, flag_quit>>

next_img_button_press ==
    /\ alpha' = alpha_slider
    /\ window' = "destroyed"
    /\ flag_next' = TRUE
    /\ UNCHANGED <<flag_refresh, flag_quit>>

quit_session_button_press ==
    /\ alpha' = alpha_slider
    /\ window' = "destroyed"
    /\ flag_quit' = TRUE
    /\ UNCHANGED <<flag_refresh, flag_next>>

\* A click on one of the three buttons.
button_press(b) ==
    /\ window = "open"
    /\ CASE b = "R" -> refresh_session_button_press
         [] b = "N" -> next_img_button_press
         [] b = "Q" -> quit_session_button_press
    /\ UNCHANGED dragging
    /\ UNCHANGED <<gui_predictions, alpha_slider, bulk_select_initial,
                   selected_prediction_i, bulk_select_rect, outline_rect>>

\* Lines 220-280: int(c) succeeds for a digit (the assignment when it is a
\* classification shortcut, nothing otherwise) and raises for anything else,
\* which the bare except turns into the command shortcuts.
key_press(c) ==
    /\ window = "open"
    /\ UNCHANGED dragging
    /\ IF IsDigit(c)
         THEN IF 1 <= int(c) /\ int(c) <= GuiClassificationsLen
                THEN /\ gui_predictions' =
                           AssignBlock(gui_predictions,
                                       selected_prediction_i[2], selected_prediction_i[4],
                                       selected_prediction_i[1], selected_prediction_i[3],
                                       int(c) - 1)
                     /\ outline_rect' = <<>>
                     /\ UNCHANGED <<flag_refresh, flag_next, flag_quit, alpha, window>>
                ELSE UNCHANGED <<gui_predictions, outline_rect, flag_refresh,
                                 flag_next, flag_quit, alpha, window>>
         ELSE /\ UNCHANGED <<gui_predictions, outline_rect>>
              /\ CASE upper(c) = "R" -> refresh_session_button_press
                   [] upper(c) = "N" -> next_img_button_press
                   [] upper(c) = "Q" -> quit_session_button_press
                   [] OTHER -> UNCHANGED <<flag_refresh, flag_next, flag_quit,
                                           alpha, window>>
    /\ UNCHANGED <<alpha_slider, bulk_select_initial, selected_prediction_i,
                   bulk_select_rect>>

\* The user moves the alpha slider (line 447).
slide_alpha(v) ==
    /\ window = "open"
    /\ alpha_slider' = v
    /\ UNCHANGED dragging
    /\ UNCHANGED <<gui_predictions, flag_refresh, flag_next, flag_quit, alpha,
                   bulk_select_initial, selected_prediction_i, bulk_select_rect,
                   outline_rect, window>>

\* The window is closed by the window manager: no handler is registered for
\* it (lines 378-543), Tk destroys the window and mainloop returns.
close_window ==
    /\ window = "open"
    /\ window' = "destroyed"
    /\ UNCHANGED dragging
    /\ UNCHANGED <<gui_predictions, flag_refresh, flag_next, flag_quit, alpha,
                   alpha_slider, bulk_select_initial, selected_prediction_i,
                   bulk_select_rect, outline_rect>>

\* A button press happens on the canvas; while the button is held, motion
\* and release are reported from outside it as well.
MouseLeftClick ==
    /\ \E x \in GuiXs \cap Nat, y \in GuiYs \cap Nat : mouse_left_click(x, y)
    /\ UNCHANGED <<dvars, gvars, livevars, balvars>>

MouseLeftMove ==
    /\ \E x \in GuiXs, y \in GuiYs : mouse_left_move(x, y)
    /\ UNCHANGED <<dvars, gvars, livevars, balvars>>

MouseLeftRelease ==
    /\ \E x \in GuiXs, y \in GuiYs : mouse_left_release(x, y)
    /\ UNCHANGED <<dvars, gvars, livevars, balvars>>

KeyPress ==
    /\ \E c \in Keys : key_press(c)
    /\ UNCHANGED <<dvars, gvars, livevars, balvars>>

ButtonPress ==
    /\ \E b \in {"R", "N", "Q"} : button_press(b)
    /\ UNCHANGED <<dvars, gvars, livevars, balvars>>

SlideAlpha ==
    /\ \E v \in 0 .. MaxAlpha : slide_alpha(v)
    /\ UNCHANGED <<dvars, gvars, livevars, balvars>>

CloseWindow ==
    /\ close_window
    /\ UNCHANGED <<dvars, gvars, livevars, balvars>>

NextGui ==
    \/ MouseLeftClick \/ MouseLeftMove \/ MouseLeftRelease \/ KeyPress
    \/ ButtonPress \/ SlideAlpha \/ CloseWindow

\* One session of the labelling window, from start_interactive_session to
\* the return of mainloop.
SpecGui == InitGui /\ [][NextGui]_vars

(* ------------------------------ lira_live1 ----------------------------- *)
\* Line 124 (and line 343): the factor the live labeller computes for image
\* k, from the archived image's own height and with no override.
live_factor(k) == get_relative_factor(policy[imgs[k + 1][1]], None)

\* Bound of the labelling session: the archive holds at most MaxLiveImgs
\* images.
MaxLiveImgs == 2

\* Line 86.
img_n == Len(imgs)

\* Lines 124-125.
sub_n(k) == live_factor(k) * live_factor(k)

\* subsection_handler.get_sub_max_n: the largest number of subsections of
\* any image of the archive (lines 101-111).
get_sub_max_n ==
    CHOOSE m \in { sub_n(k) : k \in 0 .. img_n - 1 } :
        \A k \in 0 .. img_n - 1 : sub_n(k) <= m

\* Lines 55-61, 86-111: the archive is open, the saved position is read,
\* the first InteractiveGUI object exists, no window is open yet.
InitLive ==
    /\ imgs \in SeqsUpTo(RunShapes, MaxLiveImgs) \ { <<>> }
    /\ policy \in { f \in [ { imgs[k][1] : k \in 1 .. Len(imgs) } -> 1 .. MaxFactor ] :
                      Monotone(f) }
    /\ prev_img_i \in 0 .. Len(imgs) - 1
    /\ prev_sub_i \in 0 .. MaxFactor * MaxFactor - 1
    /\ prev_sub_i < get_sub_max_n
    /\ live_sub_i = prev_sub_i
    /\ live_img_i = prev_img_i
    /\ lpc = "outer"
    /\ visited = <<>>
    /\ mb_n = 0
    /\ predictions_hf = <<>>
    /\ img_i = 0
    /\ img_h = 0
    /\ img_w = 0
    /\ img_divide_factor = None
    /\ resize_factor = None
    /\ predictions = <<>>
    /\ img_sub_i = 0
    /\ row_i = 0
    /\ col_i = 0
    /\ overlay_prediction_i = 0
    /\ sub_img = <<>>
    /\ overlay_predictions = <<>>
    /\ subs = <<>>
    /\ sub_i = 0
    /\ classified = <<>>
    /\ gpc = "none"
    /\ GuiIdle
    /\ BalIdle
    /\ DenoiserIdle

\* start_interactive_session on the current object: the window opens and
\* mainloop runs (interactive_gui_handler.py lines 386-543).
StartSession ==
    /\ window' = "open"
    /\ UNCHANGED <<gui_predictions, alpha, alpha_slider, bulk_select_initial,
                   selected_prediction_i, bulk_select_rect, outline_rect, dragging>>

\* Line 112: the outer loop takes its next sub_i, or is exhausted.
OuterNext ==
    /\ lpc = "outer"
    /\ IF live_sub_i < get_sub_max_n
         THEN /\ lpc' = "inner"
              /\ live_img_i' = prev_img_i
         ELSE /\ lpc' = "done"
              /\ UNCHANGED live_img_i
    /\ UNCHANGED <<prev_img_i, prev_sub_i, live_sub_i, visited>>
    /\ UNCHANGED <<dvars, gvars, guivars, balvars>>

\* Lines 113-155: the inner loop takes its next img_i and runs the body up to
\* the start of the session; a pair beyond the image's subsections is passed
\* over, an empty one is counted without a session (lines 219-245). When the
\* loop is exhausted the quit check of line 248 is made and the outer loop
\* goes on. empty is the answer of all_predictions_empty.
InnerNext ==
    /\ lpc = "inner"
    /\ IF live_img_i < img_n
         THEN IF live_sub_i >= sub_n(live_img_i)
                THEN /\ live_img_i' = live_img_i + 1
                     /\ UNCHANGED <<lpc, visited, live_sub_i, guivars>>
                ELSE \E empty \in BOOLEAN :
                       IF empty
                         THEN /\ visited' = Append(visited, <<live_sub_i, live_img_i, "skipped">>)
                              /\ IF flag_quit
                                   THEN lpc' = "done" /\ UNCHANGED live_img_i
                                   ELSE lpc' = "inner" /\ live_img_i' = live_img_i + 1
                              /\ UNCHANGED <<live_sub_i, guivars>>
                         ELSE /\ visited' = Append(visited, <<live_sub_i, live_img_i, "shown">>)
                              /\ StartSession
                              /\ lpc' = "session"
                              /\ UNCHANGED <<live_sub_i, live_img_i, flag_refresh,
                                             flag_next, flag_quit>>
         ELSE /\ IF flag_quit
                   THEN lpc' = "done" /\ UNCHANGED live_sub_i
                   ELSE lpc' = "outer" /\ live_sub_i' = live_sub_i + 1
              /\ UNCHANGED <<live_img_i, visited, guivars>>
    /\ UNCHANGED <<prev_img_i, prev_sub_i>>
    /\ UNCHANGED <<dvars, gvars, balvars>>

\* mainloop runs until the window is destroyed: by one of the three buttons,
\* by one of their key shortcuts, or by the window manager. Then
\* start_interactive_session returns, to line 157 for the session of line
\* 155 and to line 190 for the session of line 188.
SessionEnds ==
    /\ lpc \in {"session", "session_refresh"}
    /\ \/ \E b \in {"R", "N", "Q"} : button_press(b)
       \/ \E c \in {"r", "n", "q"} : key_press(c)
       \/ close_window
    /\ lpc' = IF lpc = "session" THEN "wait" ELSE "wait_next"
    /\ UNCHANGED <<prev_img_i, prev_sub_i, live_sub_i, live_img_i, visited>>
    /\ UNCHANGED <<dvars, gvars, balvars>>

\* Lines 157-188: the top of one turn of the wait loop. With flag_refresh a
\* new InteractiveGUI object replaces the session (all its flags False, the
\* alpha and predictions of the old one) and its window is opened.
WaitRefresh ==
    /\ lpc = "wait"
    /\ IF flag_refresh
         THEN /\ flag_refresh' = FALSE
              /\ flag_next' = FALSE
              /\ flag_quit' = FALSE
              /\ StartSession
              /\ lpc' = "session_refresh"
         ELSE /\ lpc' = "wait_next"
              /\ UNCHANGED guivars
    /\ UNCHANGED <<prev_img_i, prev_sub_i, live_sub_i, live_img_i, visited>>
    /\ UNCHANGED <<dvars, gvars, balvars>>

\* Lines 190-215: the rest of the turn. flag_next is reset and the loop
\* left, flag_quit leaves it, anything else starts the next turn.
WaitNextQuit ==
    /\ lpc = "wait_next"
    /\ IF flag_next
         THEN /\ flag_next' = FALSE
              /\ lpc' = "after"
         ELSE /\ lpc' = IF flag_quit THEN "after" ELSE "wait"
              /\ UNCHANGED flag_next
    /\ UNCHANGED <<gui_predictions, flag_refresh, flag_quit, alpha, alpha_slider,
                   bulk_select_initial, selected_prediction_i, bulk_select_rect,
                   outline_rect, window, dragging>>
    /\ UNCHANGED <<prev_img_i, prev_sub_i, live_sub_i, live_img_i, visited>>
    /\ UNCHANGED <<dvars, gvars, balvars>>

\* Lines 216-250: after the wait loop, quit leaves both for loops; otherwise
\* the counts and the predictions are updated and the inner loop goes on.
AfterSession ==
    /\ lpc = "after"
    /\ IF flag_quit
         THEN lpc' = "done" /\ UNCHANGED live_img_i
         ELSE lpc' = "inner" /\ live_img_i' = live_img_i + 1
    /\ UNCHANGED <<prev_img_i, prev_sub_i, live_sub_i, visited>>
    /\ UNCHANGED <<dvars, gvars, guivars, balvars>>

NextLive ==
    \/ OuterNext \/ InnerNext \/ SessionEnds \/ WaitRefresh \/ WaitNextQuit
    \/ AfterSession

\* One run of lira_live1.main's labelling loops.
SpecLive == InitLive /\ [][NextLive]_vars

(* --------------------------- dataset_augmenter ------------------------- *)
\* Bounds of balance_dataset's inputs: at most MaxSamples samples, at most
\* MaxBalClassN classes.
MaxSamples == 4
MaxBalClassN == 2

\* The orderings (permutations) of 1 .. n.
Orderings(n) ==
    { f \in [1 .. n -> 1 .. n] : \A a, b \in 1 .. n : f[a] = f[b] => a = b }

\* np.sum(y == c)
CountOf(y, c) == Cardinality({ k \in DOMAIN y : y[k] = c })

\* np.min(class_samples) taken as the largest count.
class_sample_majority(y, cn) ==
    CHOOSE m \in { CountOf(y, c) : c \in 0 .. cn - 1 } :
        \A c \in 0 .. cn - 1 : CountOf(y, c) <= m

\* Lines 40-47: class_samples[class_i] = np.sum(y == class_i) and its
\* np.min, for class_n >= 1.
class_sample_minority(y, cn) ==
    CHOOSE m \in { CountOf(y, c) : c \in 0 .. cn - 1 } :
        \A c \in 0 .. cn - 1 : m <= CountOf(y, c)

\* Lines 66-71: the loop over the samples from sample k on; inc is
\* class_sample_incrementer, bi is balanced_i, bx and by are balanced_x and
\* balanced_y (created full of zeros, filled from the front).
RECURSIVE BalanceLoop(_, _, _, _, _, _, _, _)
BalanceLoop(x, y, m, k, inc, bi, bx, by) ==
    IF k > Len(x) THEN <<bx, by>>
    ELSE IF inc[y[k]] < m
      THEN BalanceLoop(x, y, m, k + 1, [inc EXCEPT ![y[k]] = @ + 1], bi + 1,
                       [bx EXCEPT ![bi + 1] = x[k]], [by EXCEPT ![bi + 1] = y[k]])
      ELSE BalanceLoop(x, y, m, k + 1, inc, bi, bx, by)

\* Lines 36-75 for class_n >= 1.
balance_dataset(x, y, cn) ==
    LET m == class_sample_minority(y, cn)
    IN  BalanceLoop(x, y, m, 1, [c \in 0 .. cn - 1 |-> 0], 0,
                    [p \in 1 .. m * cn |-> 0], [p \in 1 .. m * cn |-> 0])

\* balance_dataset is called with samples 1 .. n (each sample stands for its
\* own data) labelled within [0, class_n).
InitBal ==
    /\ bal_class_n \in 0 .. MaxBalClassN
    /\ \E n \in 0 .. MaxSamples :
         /\ bal_x = [k \in 1 .. n |-> k]
         /\ bal_y \in [1 .. n -> 0 .. bal_class_n - 1]
    /\ balanced = <<>>
    /\ bpc = "called"
    /\ GuiIdle
    /\ LiveIdle
    /\ GenIdle
    /\ gpc = "none"
    /\ DenoiserIdle

\* Line 35: unison_shuffle(x, y) reorders x and y in place by one
\* permutation, which may be any.
UnisonShuffle ==
    /\ bpc = "called"
    /\ \E f \in Orderings(Len(bal_x)) :
         /\ bal_x' = [k \in 1 .. Len(bal_x) |-> bal_x[f[k]]]
         /\ bal_y' = [k \in 1 .. Len(bal_y) |-> bal_y[f[k]]]
    /\ bpc' = "shuffled"
    /\ UNCHANGED <<bal_class_n, balanced>>
    /\ UNCHANGED <<dvars, gvars, guivars, livevars>>

\* Lines 36-75: np.min of the empty class_samples raises ValueError when
\* class_n is 0; otherwise the balanced arrays are returned.
Balance ==
    /\ bpc = "shuffled"
    /\ IF bal_class_n = 0
         THEN /\ bpc' = "ValueError"
              /\ UNCHANGED balanced
         ELSE /\ bpc' = "returned"
              /\ balanced' = balance_dataset(bal_x, bal_y, bal_class_n)
    /\ UNCHANGED <<bal_x, bal_y, bal_class_n>>
    /\ UNCHANGED <<dvars, gvars, guivars, livevars>>

NextBal == UnisonShuffle \/ Balance

\* Calls of balance_dataset.
SpecBal == InitBal /\ [][NextBal]_vars

(* ====================== reference definitions ========================== *)
(* What the specification says, stated without the code's lists and scans. *)

Abs(x) == IF x < 0 THEN -x ELSE x
Max2(x, y) == IF x > y THEN x ELSE y
Chebyshev(p, q) == Max2(Abs(p[1] - q[1]), Abs(p[2] - q[2]))

\* The cells of an hh x ww grid at Chebyshev distance 1 of p.
Neighborhood(p, hh, ww) == { q \in Cells(hh, ww) : Chebyshev(p, q) = 1 }

\* cost(c) of the specification for cell p of array a.
RefCost(a, p, c) ==
    -(1 * (IF c = a.at[p] THEN 1 ELSE 0)
      + 10 * Cardinality({ q \in Neighborhood(p, a.shape[1], a.shape[2]) :
                              a.at[q] = c }))

\* The classes of minimal cost for cell p.
RefMinimal(a, p, cn) ==
    LET rc == [c \in 0 .. cn - 1 |-> RefCost(a, p, c)]
    IN  { c \in 0 .. cn - 1 : \A d \in 0 .. cn - 1 : rc[c] <= rc[d] }

\* The smallest of them.
RefLabel(a, p, cn) ==
    LET minimal == RefMinimal(a, p, cn)
    IN  CHOOSE c \in minimal : \A d \in minimal : c <= d

\* One synchronous pass under the first-minimum rule.
RefPass(a, cn) ==
    Array(a.shape[1], a.shape[2],
          [p \in Cells(a.shape[1], a.shape[2]) |-> RefLabel(a, p, cn)])

\* The cells of the current pass that have been computed, and the last one.
Done == { p \in Cells(h, w) : p[1] < i \/ (p[1] = i /\ p[2] < j) }
LastCell == IF j > 0 THEN <<i, j - 1>> ELSE <<i - 1, w - 1>>
AfterCell == pc = "cells" /\ Done # {}

Uniform(a) == \A p, q \in DOMAIN a.at : a.at[p] = a.at[q]

\* The 3x3 grid of class 0 with class 1 at its centre, and the all-zero one.
OutlierGrid == Array(3, 3, [p \in Cells(3, 3) |-> IF p = <<1, 1>> THEN 1 ELSE 0])
ZeroGrid3 == Array(3, 3, [p \in Cells(3, 3) |-> 0])

(* ============================== claims ================================= *)

\* C1 (as claimed): a call with epochs = 0 (and a usable class_n >= 1) ends by
\* returning a grid equal to the input grid; it does not fail.
C1_NoOpReturnsInput ==
    (epochs = 0 /\ class_n >= 1 /\ pc \notin {"call", "epoch"})
        => (pc = "returned" /\ heap[result] = heap[1])

\* C2: within a pass nothing is written to the array src names (it keeps the
\* value it had when the pass began), every cell computed so far holds the
\* label computed from that pre-pass grid alone, and when src has been
\* replaced it is by a grid all of whose cells were computed from it.
C2_JacobiUpdate ==
    /\ pc = "cells" =>
          /\ heap[src] = start
          /\ \A p \in Done : heap[dst].at[p] = RefLabel(start, p, class_n)
    /\ (pc = "epoch" /\ epoch >= 1) => heap[src] = RefPass(start, class_n)

\* The grid an in-place update would be reading now: the cells already
\* computed taken from dst, the others from the pre-pass grid.
MixedGrid ==
    Array(h, w, [p \in Cells(h, w) |->
                    IF p \in Done THEN heap[dst].at[p] ELSE start.at[p]])

C2_Witness ==
    /\ pc = "cells"
    /\ i < h
    /\ Done # {}
    /\ class_n >= 1
    /\ RefLabel(MixedGrid, <<i, j>>, class_n) # RefLabel(start, <<i, j>>, class_n)

\* C3: after a cell has been computed, costs[c] is -(1*[c = own pre-pass
\* label] + 10*(number of neighbours whose pre-pass label is c)) for every
\* class c, and the label written is a class of minimal cost.
C3_CostAndArgmin ==
    AfterCell =>
        /\ DOMAIN costs = 0 .. class_n - 1
        /\ \A c \in 0 .. class_n - 1 : costs[c] = RefCost(start, LastCell, c)
        /\ heap[dst].at[LastCell] \in 0 .. class_n - 1
        /\ \A c \in 0 .. class_n - 1 : costs[heap[dst].at[LastCell]] <= costs[c]

C3_Witness ==
    /\ AfterCell
    /\ class_n = 3
    /\ Cardinality({ costs[c] : c \in 0 .. class_n - 1 }) = 3
    /\ Cardinality(Neighborhood(LastCell, h, w)) >= 3

\* C4: the label written for a cell is the smallest class among those of
\* minimal cost, and the grid returned is a function of (grid, class_n,
\* epochs) alone: the input grid taken through `epochs` passes of the
\* first-minimum rule, one after the other.
C4_SmallestTiedClass ==
    /\ AfterCell =>
          \A c \in 0 .. class_n - 1 :
              costs[c] = costs[heap[dst].at[LastCell]] => heap[dst].at[LastCell] <= c
    /\ pc = "returned" =>
          /\ result = epochs + 1
          /\ \A k \in 1 .. epochs : heap[k + 1] = RefPass(heap[k], class_n)

C4_Witness ==
    /\ AfterCell
    /\ \A p \in DOMAIN start.at : start.at[p] < class_n
    /\ \E c, d \in 0 .. class_n - 1 :
          /\ c # d
          /\ costs[c] = costs[d]
          /\ \A e \in 0 .. class_n - 1 : costs[c] <= costs[e]

\* C5: for the 3x3 grid of class 0 with class 1 at the centre and class_n >= 2
\* the grid after one pass is the all-zero 3x3 grid.
C5_OutlierCorrected ==
    (heap[1] = OutlierGrid /\ class_n >= 2) =>
        /\ (pc = "epoch" /\ epoch = 1) => heap[src] = ZeroGrid3
        /\ (pc = "returned" /\ epochs = 1) => heap[result] = ZeroGrid3

C5_Witness ==
    /\ heap[1] = OutlierGrid
    /\ class_n >= 2
    /\ epochs = 1
    /\ pc = "returned"
    /\ heap[result].at[<<1, 1>>] = 0

\* C6: a grid whose cells all hold the same class c, 0 <= c < class_n, is
\* unchanged by every pass, so it is returned unchanged for every epochs >= 1.
C6_UniformFixedPoint ==
    (Uniform(heap[1]) /\ \A p \in DOMAIN heap[1].at : heap[1].at[p] \in 0 .. class_n - 1)
        => /\ (pc = "epoch" => heap[src] = heap[1])
           /\ (pc = "returned" => heap[result] = heap[1])

C6_Witness ==
    /\ pc = "returned"
    /\ epochs = 2
    /\ result # 1
    /\ Uniform(heap[1])
    /\ heap[1].shape = <<2, 3>>
    /\ heap[1].at[<<0, 0>>] = 2
    /\ class_n = 3

\* C7: the list get_neighbors returned for the cell just computed holds
\* exactly the grid's cells at Chebyshev distance 1 of it, each once (so never
\* the cell itself, a cell outside the grid or a wrapped-around one), and for
\* the corner (0,0) of a grid with h, w >= 2 it is [(0,1), (1,0), (1,1)].
C7_NeighborsExact ==
    AfterCell =>
        /\ { neighbors[k] : k \in 1 .. Len(neighbors) } = Neighborhood(LastCell, h, w)
        /\ Len(neighbors) = Cardinality(Neighborhood(LastCell, h, w))
        /\ neighbors = get_neighbors(LastCell[1], LastCell[2], h, w)
        /\ (LastCell = <<0, 0>> /\ h >= 2 /\ w >= 2)
              => neighbors = << <<0, 1>>, <<1, 0>>, <<1, 1>> >>
        /\ (h >= 3 /\ w >= 3) =>
              Len(neighbors) =
                 LET edgeI == LastCell[1] \in {0, h - 1}
                     edgeJ == LastCell[2] \in {0, w - 1}
                 IN  IF edgeI /\ edgeJ THEN 3 ELSE IF edgeI \/ edgeJ THEN 5 ELSE 8

C7_Witness ==
    /\ AfterCell
    /\ h = 3
    /\ w = 3
    /\ LastCell = <<1, 1>>
    /\ Len(neighbors) = 8

\* C8: a call that gets past its set-up makes exactly `epochs` passes: a pass
\* is under way only while fewer than `epochs` are complete, each pass
\* allocates one grid, and when the call has ended (by the return or by the
\* unbound-name error of epochs = 0) `epochs` passes are complete, whether or
\* not a pass left the grid unchanged.
C8_ExactlyEpochsPasses ==
    /\ pc = "cells" => (epoch < epochs /\ Len(heap) = epoch + 2)
    /\ pc = "epoch" => (epoch <= epochs /\ Len(heap) = epoch + 1)
    /\ pc \in {"returned", "UnboundLocalError"} =>
          (epoch = epochs /\ Len(heap) = epochs + 1)

C8_Witness ==
    /\ pc = "returned"
    /\ epochs = 2
    /\ epoch = 2
    /\ heap[1].shape = <<2, 3>>
    /\ heap[1].at[<<0, 0>>] = 1
    /\ heap[2] = heap[1]
    /\ heap[3] = heap[1]

\* C9: for epochs >= 1 the grid returned has the shape of the input grid.
C9_ShapePreserved ==
    pc = "returned" =>
        /\ heap[result].shape = heap[1].shape
        /\ DOMAIN heap[result].at = Cells(heap[1].shape[1], heap[1].shape[2])

C9_Witness ==
    /\ pc = "returned"
    /\ epochs >= 1
    /\ heap[1].shape = <<2, 3>>
    /\ heap[result] # heap[1]

\* C10: once the row bands have been joined, the assembled grid has one cell
\* per tile of the padded image and holds at (R, C) the label the classifier
\* returned for the tile at (R, C); with a partition factor of 1 it is the
\* row-major reshape of the single block's label vector.
C10_AssembledGridPlacesLabels ==
    gpc = "denoise" =>
        /\ predictions.shape = << img_h \div sub_h, img_w \div sub_w >>
        /\ DOMAIN predictions.at = Cells(img_h \div sub_h, img_w \div sub_w)
        /\ DOMAIN classified = Cells(img_h \div sub_h, img_w \div sub_w)
        /\ \A p \in Cells(img_h \div sub_h, img_w \div sub_w) :
              predictions.at[p] = classified[p]
        /\ img_divide_factor = 1 => predictions = overlay_predictions

C10_Witness ==
    /\ gpc = "denoise"
    /\ pc = "call"
    /\ img_divide_factor = 2
    /\ mb_n = 2
    /\ predictions.shape = <<3, 2>>
    /\ classified[<<0, 1>>] # classified[<<1, 0>>]
    /\ classified[<<1, 1>>] # classified[<<2, 0>>]
    /\ predictions.at[<<2, 1>>] = 1
    /\ predictions.at[<<2, 0>>] = 0

(* ============================ C11 ====================================== *)

\* The tile grid of the current padded image.
TileRows == img_h \div sub_h
TileCols == img_w \div sub_w
AllTiles == Cells(TileRows, TileCols)

\* The block coordinates the row_i / col_i loops request, in loop order.
BlockCoords == (0 .. img_divide_factor - 1) \X (0 .. img_divide_factor - 1)

\* The tiles of the block requested for (ri, ci).
BlockTiles(ri, ci) ==
    LET g == get_subsections(sub_h, sub_w,
                 get_next_subsection(ri, ci, img_h, img_w, sub_h, sub_w,
                                     img_divide_factor))
    IN  { g.at[p] : p \in DOMAIN g.at }

\* The blocks requested before (row_i, col_i).
EarlierBlocks ==
    { rc \in BlockCoords : rc[1] < row_i \/ (rc[1] = row_i /\ rc[2] < col_i) }

\* The tiles of the current block that have been through a batch.
BatchedTiles ==
    { subs[k] : k \in { m \in DOMAIN subs : m < sub_i } }

\* C11: for every tile-grid size and every factor f >= 1 (sizes that f does
\* not divide included) the f x f blocks requested by the row_i / col_i
\* loops cover every tile of the padded image exactly once; the last block
\* of each axis takes the remainder.
C11_PartitionExhaustive ==
    (gpc \in {"block", "batch"} /\ img_divide_factor >= 1) =>
        /\ \A t \in AllTiles :
              Cardinality({ rc \in BlockCoords : t \in BlockTiles(rc[1], rc[2]) }) = 1
        /\ \A rc \in BlockCoords : BlockTiles(rc[1], rc[2]) \subseteq AllTiles
        /\ DOMAIN classified =
              UNION { BlockTiles(rc[1], rc[2]) : rc \in EarlierBlocks }
              \cup (IF gpc = "batch" THEN BatchedTiles ELSE {})
        /\ gpc = "batch" =>
              /\ { subs[k] : k \in DOMAIN subs } = BlockTiles(row_i, col_i)
              /\ Cardinality(BlockTiles(row_i, col_i)) = LenSubs
              /\ sub_img.shape[1] \div sub_h =
                    IF row_i = img_divide_factor - 1
                      THEN TileRows - row_i * (TileRows \div img_divide_factor)
                      ELSE TileRows \div img_divide_factor
              /\ sub_img.shape[2] \div sub_w =
                    IF col_i = img_divide_factor - 1
                      THEN TileCols - col_i * (TileCols \div img_divide_factor)
                      ELSE TileCols \div img_divide_factor
        /\ (gpc = "block" /\ row_i >= img_divide_factor) =>
              DOMAIN classified = AllTiles

\* Three tile rows in two row groups: all blocks requested, every tile
\* classified.
C11_Witness ==
    /\ gpc = "block"
    /\ img_divide_factor = 2
    /\ row_i >= img_divide_factor
    /\ TileRows = 3
    /\ TileCols = 2
    /\ DOMAIN classified = AllTiles

(* ============================ C12 ====================================== *)

Min2(x, y) == IF x < y THEN x ELSE y

\* C12: a block of n tiles is classified in the consecutive slices
\* [k*mb_n, min((k+1)*mb_n, n)), k increasing: every batch holds at least
\* one and at most mb_n tiles, only the last may hold fewer, no tile is
\* added, every tile is in exactly one batch, and when the loop ends
\* overlay_prediction_i = n with the label of tile t at index t.
C12_BatchesSliceTheBlock ==
    gpc = "batch" =>
        /\ sub_i % mb_n = 0
        /\ overlay_prediction_i = Min2(sub_i, LenSubs)
        /\ sub_i < LenSubs =>
              /\ BatchLen >= 1
              /\ BatchLen <= mb_n
              /\ BatchLen < mb_n => sub_i + BatchLen = LenSubs
        /\ sub_i >= LenSubs => overlay_prediction_i = LenSubs
        /\ DOMAIN overlay_predictions = 0 .. LenSubs - 1
        /\ \A t \in DOMAIN subs :
              /\ t < sub_i => /\ subs[t] \in DOMAIN classified
                              /\ overlay_predictions[t] = classified[subs[t]]
              /\ t >= sub_i => /\ subs[t] \notin DOMAIN classified
                               /\ overlay_predictions[t] = 0
        /\ \A t, u \in DOMAIN subs : subs[t] = subs[u] => t = u
        /\ DOMAIN classified \subseteq AllTiles

\* Three tiles in batches of two: the second batch holds one tile and the
\* loop has ended.
C12_Witness ==
    /\ gpc = "batch"
    /\ mb_n = 2
    /\ LenSubs = 3
    /\ sub_i = 4
    /\ overlay_prediction_i = 3
    /\ overlay_predictions[0] = 0
    /\ overlay_predictions[2] = 1

(* ============================ C13 ====================================== *)

\* C13: the partition factor of every image is the policy's answer for that
\* image's own padded height; no override is carried over from another
\* image, so an image gets the same factor whether it is processed first or
\* after other images.
C13_FactorIsOwnPolicy ==
    (img_h \in DOMAIN policy /\ \A x \in DOMAIN policy : policy[x] >= 1)
        => img_divide_factor = policy[img_h]

(* ============================ C15 ====================================== *)

\* What holds in every state: the grids of the images before img_i are
\* written and no other; blocks are taken in row-major order with the
\* denoiser not running; the denoiser runs only on a grid whose blocks have
\* all been classified.
C15_StateOrder ==
    /\ DOMAIN predictions_hf = 0 .. img_i - 1
    /\ gpc \in {"block", "batch"} =>
          /\ pc = "idle"
          /\ img_divide_factor >= 1 => img_sub_i = row_i * img_divide_factor + col_i
    /\ gpc = "denoise" =>
          /\ row_i >= img_divide_factor
          /\ img_sub_i = img_divide_factor * img_divide_factor
          /\ DOMAIN classified = AllTiles

\* What holds of every step: a grid is written only when the denoiser has
\* returned from its last epoch, it is that epoch's grid, under the key
\* img_i, which was not written before; img_i moves on only with that write;
\* batches and blocks advance in order.
C15_StepOrder ==
    /\ predictions_hf' # predictions_hf =>
          /\ gpc = "denoise"
          /\ pc = "returned"
          /\ epoch = PipelineEpochs
          /\ result = PipelineEpochs + 1
          /\ img_i \notin DOMAIN predictions_hf
          /\ predictions_hf' = (img_i :> heap[result]) @@ predictions_hf
    /\ img_i' # img_i =>
          /\ img_i' = img_i + 1
          /\ img_i \in DOMAIN predictions_hf'
    /\ (gpc = "batch" /\ sub_i' # sub_i) =>
          (sub_i' = sub_i + mb_n \/ (sub_i' = 0 /\ gpc' # "batch"))
    /\ img_sub_i' # img_sub_i =>
          \/ img_sub_i' = img_sub_i + 1 /\ gpc = "batch" /\ sub_i >= LenSubs
          \/ img_sub_i' = 0 /\ gpc = "image"
    /\ (gpc # "denoise" /\ gpc' = "denoise") => (gpc = "block" /\ epoch' = 0)

\* C15: for every image the blocks are classified one at a time in
\* row-major block order, the batches of a block in order; then the grid is
\* assembled; then all denoising epochs run; then the final grid is written
\* exactly once under the key of img_i. No grid is written before the last
\* epoch, and image i+1 is not started before image i's grid is written.
C15_PerImageOrder == []C15_StateOrder /\ [][C15_StepOrder]_vars

\* Two images, both written, the second partitioned in two row groups.
C15_Witness ==
    /\ gpc = "done"
    /\ Len(imgs) = 2
    /\ DOMAIN predictions_hf = {0, 1}
    /\ predictions_hf[1].shape = <<2, 1>>
    /\ img_divide_factor = 2

(* ============================ C16 ====================================== *)

\* After a classifier failure the grids written are those of the images
\* before the failing one.
C16_NothingWrittenForFailedImage ==
    gpc = "ClassifierError" =>
        /\ img_i < Len(imgs)
        /\ DOMAIN predictions_hf = 0 .. img_i - 1

\* No step leaves a failure state; a step in which the classifier was called
\* on a batch and delivered no label is the failure step and changes neither
\* the archive nor the position in the run.
C16_FailureStep ==
    /\ gpc # "ClassifierError"
    /\ (gpc = "batch" /\ sub_i < LenSubs /\ classified' = classified) =>
          /\ gpc' = "ClassifierError"
          /\ UNCHANGED <<predictions_hf, img_i, sub_i, overlay_prediction_i,
                         overlay_predictions>>

\* C16: a classifier call that fails while image i is processed ends the
\* run: no dataset is written for image i, the failed batch is not retried
\* and no later image is processed.
C16_ClassifierFailurePropagates ==
    []C16_NothingWrittenForFailedImage /\ [][C16_FailureStep]_vars

\* The second batch of the second image fails; the first image is written.
C16_Witness ==
    /\ gpc = "ClassifierError"
    /\ img_i = 1
    /\ Len(imgs) = 2
    /\ DOMAIN predictions_hf = {0}
    /\ sub_i > 0

(* ============================ C17 ====================================== *)

\* C17 (as claimed): a call of denoise_predictions with class_n <= 0 never
\* returns a grid, whatever the grid and the number of epochs.
C17_NonPositiveClassNIsFatal ==
    (gpc = "none" /\ class_n <= 0) => pc # "returned"

(* ============================ C18 ====================================== *)

\* The image has been given a factor <= 0.
BadFactor == img_divide_factor # None /\ img_divide_factor <= 0

\* With such a factor no tile is classified, the denoiser is not called and
\* nothing is written.
C18_NothingDone ==
    BadFactor =>
        /\ gpc \in {"block", "ValueError"}
        /\ classified = <<>>
        /\ img_sub_i = 0
        /\ pc = "idle"
        /\ heap = <<>>
        /\ predictions_hf = <<>>

TwoCellGrid == Array(1, 2, [p \in Cells(1, 2) |-> p[2]])
TwoCellGridSwapped == Array(1, 2, [p \in Cells(1, 2) |-> 1 - p[2]])
Exchanged(a) == IF a = TwoCellGrid THEN TwoCellGridSwapped ELSE TwoCellGrid

\* C19: the relaxation need not converge. On the grid of two adjacent cells
\* holding different labels every epoch returns the grid with the two labels
\* exchanged, from either arrangement, so no epoch, however many are run,
\* returns a grid equal to the one it started from.
C19_TwoCellGridOscillates ==
    (gpc = "none" /\ heap # <<>> /\ heap[1] \in {TwoCellGrid, TwoCellGridSwapped}
       /\ class_n >= 2) =>
        \A k \in 2 .. src : /\ heap[k] = Exchanged(heap[k - 1])
                            /\ heap[k] # heap[k - 1]

\* Two epochs on the two-cell grid: exchanged, then exchanged back.
C19_Witness ==
    /\ gpc = "none"
    /\ pc = "returned"
    /\ epochs = 2
    /\ class_n = 2
    /\ heap[1] = TwoCellGrid
    /\ heap[2] = TwoCellGridSwapped
    /\ heap[result] = TwoCellGrid

(* ============================ C20 ====================================== *)

\* The policy has answered only positive factors.
PolicyPositive == \A x \in DOMAIN policy : policy[x] >= 1

\* C20 (as claimed, here for images that need no padding in height): for the
\* image being processed the factor the live labeller computes equals the
\* factor generate_predictions uses, so that a block index names the same
\* block (row sub_i div factor, column sub_i mod factor) in both programs.
C20_LabellerUsesSameFactor ==
    (gpc \in {"block", "batch", "denoise"} /\ PolicyPositive
       /\ imgs[img_i + 1][1] = img_h) =>
        /\ live_factor(img_i) = img_divide_factor
        /\ gpc = "batch" =>
              /\ img_sub_i \div live_factor(img_i) = row_i
              /\ img_sub_i % live_factor(img_i) = col_i

(* ============================ C27 ====================================== *)

\* Every label of array a is a class index below cn.
InRange(a, cn) == \A p \in DOMAIN a.at : a.at[p] \in 0 .. cn - 1

\* How many neighbours of p hold class c in array a.
NeighbourCount(a, p, c) ==
    Cardinality({ q \in Neighborhood(p, a.shape[1], a.shape[2]) : a.at[q] = c })

\* The classes that occur most often among the neighbours of p.
Plurality(a, p, cn) ==
    LET n == [c \in 0 .. cn - 1 |-> NeighbourCount(a, p, c)]
    IN  { c \in 0 .. cn - 1 : \A d \in 0 .. cn - 1 : n[c] >= n[d] }

\* The cell's own label when it is among them, their smallest otherwise.
PluralityLabel(a, p, cn) ==
    LET top == Plurality(a, p, cn)
    IN  IF a.at[p] \in top THEN a.at[p]
        ELSE CHOOSE c \in top : \A d \in top : c <= d

\* C27: in a pass over a grid whose labels are all below class_n, the label
\* written for a cell with at least one neighbour is a class occurring most
\* often among its neighbours: its own label if that is one of them, their
\* smallest otherwise. The cell keeps its label exactly when no other class
\* occurs strictly more often among its neighbours than its own label. A
\* cell without neighbours keeps its label.
C27_PluralityRule ==
    (AfterCell /\ InRange(start, class_n)) =>
        LET new == heap[dst].at[LastCell]
            own == start.at[LastCell]
        IN  /\ Neighborhood(LastCell, h, w) # {} =>
                  /\ new \in Plurality(start, LastCell, class_n)
                  /\ new = PluralityLabel(start, LastCell, class_n)
                  /\ new = own <=>
                        \A c \in 0 .. class_n - 1 :
                            NeighbourCount(start, LastCell, c)
                                <= NeighbourCount(start, LastCell, own)
            /\ Neighborhood(LastCell, h, w) = {} => new = own

\* The own label is tied for the largest count with a smaller class, and is
\* kept.
C27_Witness ==
    /\ AfterCell
    /\ InRange(start, class_n)
    /\ heap[dst].at[LastCell] = start.at[LastCell]
    /\ \E c \in 0 .. class_n - 1 :
          /\ c < start.at[LastCell]
          /\ c \in Plurality(start, LastCell, class_n)
          /\ start.at[LastCell] \in Plurality(start, LastCell, class_n)
          /\ NeighbourCount(start, LastCell, c) >= 1

(* ============================ C28 ====================================== *)

\* C28: with class_n >= 1 and epochs >= 1 every cell of the returned grid is
\* a class index in [0, class_n), also when the input grid holds labels
\* outside that range.
C28_ReturnedLabelsInRange ==
    (pc = "returned" /\ class_n >= 1 /\ epochs >= 1) =>
        InRange(heap[result], class_n)

\* A grid holding the label 2 denoised with class_n = 2.
C28_Witness ==
    /\ gpc = "none"
    /\ pc = "returned"
    /\ class_n = 2
    /\ epochs >= 1
    /\ \E p \in DOMAIN heap[1].at : heap[1].at[p] = 2
    /\ InRange(heap[result], class_n)

(* ============================ C29 ====================================== *)

\* The classes present in array a.
Labels(a) == { a.at[p] : p \in DOMAIN a.at }

\* C29: in a grid of at least two cells whose labels are all below class_n
\* the label written for a cell is the pre-pass label of one of its
\* neighbours; the set of classes present never grows from one pass to the
\* next.
C29_NoNewClass ==
    /\ (AfterCell /\ InRange(start, class_n) /\ h * w >= 2) =>
          \E q \in Neighborhood(LastCell, h, w) :
              start.at[q] = heap[dst].at[LastCell]
    /\ (gpc = "none" /\ pc \in {"epoch", "returned"} /\ InRange(heap[1], class_n)
          /\ Cardinality(DOMAIN heap[1].at) >= 2) =>
          \A k \in 2 .. src : Labels(heap[k]) \subseteq Labels(heap[k - 1])

\* A class has disappeared in the first pass and the second pass is over.
C29_Witness ==
    /\ gpc = "none"
    /\ pc = "returned"
    /\ epochs = 2
    /\ InRange(heap[1], class_n)
    /\ Cardinality(Labels(heap[1])) = 3
    /\ Cardinality(Labels(heap[2])) = 2
    /\ Labels(heap[3]) \subseteq Labels(heap[2])

(* ============================ C30 ====================================== *)

\* A step of a call leaves every array alone except the one dst names, and
\* a newly bound dst names an array that did not exist before.
C30_Step ==
    gpc = "none" =>
        /\ \A k \in DOMAIN heap : k # dst' => (k \in DOMAIN heap' /\ heap'[k] = heap[k])
        /\ heap # <<>> => heap'[1] = heap[1]
        /\ dst' # dst => (dst' \notin DOMAIN heap /\ dst' # 1)

\* C30: denoise_predictions never writes to the array the caller passed in:
\* it holds the same values after the call as before, and every pass writes
\* only to an array created for that pass.
C30_InputUntouched ==
    [](gpc = "none" /\ dst # 0 => dst # 1) /\ [][C30_Step]_vars

\* Two passes over a grid that the first pass changes; the caller's array
\* still differs from the returned one.
C30_Witness ==
    /\ gpc = "none"
    /\ pc = "returned"
    /\ epochs = 2
    /\ result = 3
    /\ heap[1] # heap[2]
    /\ heap[1] # heap[3]

(* ---------------------------------------------------------------------- *)
(* C24                                                                    *)
(* ---------------------------------------------------------------------- *)
\* The four orientations get_rectangle_coordinates distinguishes.
RectBranch(b, x1, y1, x2, y2) ==
    CASE b = 1 -> x1 <= x2 /\ y1 <= y2
      [] b = 2 -> x1 > x2 /\ y1 <= y2
      [] b = 3 -> x1 <= x2 /\ y1 > y2
      [] b = 4 -> x1 > x2 /\ y1 > y2

\* C24: for any two points get_rectangle_coordinates returns (min x, min y,
\* max x, max y), and exactly one of its four branches applies: whenever the
\* pointer moves to (x, y) during a drag started at bulk_select_initial, the
\* rectangle drawn has these corners.
C24_Step ==
    \A x \in GuiXs, y \in GuiYs :
        mouse_left_move(x, y) =>
            /\ bulk_select_rect' =
                  << Min2(bulk_select_initial[1], x), Min2(bulk_select_initial[2], y),
                     Max2(bulk_select_initial[1], x), Max2(bulk_select_initial[2], y) >>
            /\ Cardinality({ b \in 1 .. 4 :
                  RectBranch(b, bulk_select_initial[1], bulk_select_initial[2], x, y) }) = 1

C24_RectangleIsMinMax == [][C24_Step]_vars

\* A drag up and to the left has drawn its rectangle (the fourth branch).
C24_Witness ==
    /\ dragging
    /\ bulk_select_rect # <<>>
    /\ bulk_select_rect[1] < bulk_select_initial[1]
    /\ bulk_select_rect[2] < bulk_select_initial[2]

(* ---------------------------------------------------------------------- *)
(* C23                                                                    *)
(* ---------------------------------------------------------------------- *)
\* The grid a with every cell of rows [y1, y2) x columns [x1, x2) set to v.
RectangleSet(a, x1, y1, x2, y2, v) ==
    Array(a.shape[1], a.shape[2],
          [p \in Cells(a.shape[1], a.shape[2]) |->
              IF y1 <= p[1] /\ p[1] < y2 /\ x1 <= p[2] /\ p[2] < x2
                THEN v ELSE a.at[p]])

FlagsKept == UNCHANGED <<flag_refresh, flag_next, flag_quit>>

\* C23: key_press with a digit k in 1 .. len(classifications) sets every cell
\* of predictions in rows [y1, y2) x columns [x1, x2) of the selection to
\* k - 1 and changes no other cell, no flag and not alpha; any other digit
\* changes nothing; r, n, q in either case set exactly their own flag; any
\* other key changes nothing.
C23_Step ==
    \A c \in Keys :
        key_press(c) =>
            IF IsDigit(c) /\ 1 <= int(c) /\ int(c) <= GuiClassificationsLen
              THEN /\ gui_predictions' =
                         RectangleSet(gui_predictions,
                                      selected_prediction_i[1], selected_prediction_i[2],
                                      selected_prediction_i[3], selected_prediction_i[4],
                                      int(c) - 1)
                   /\ FlagsKept
                   /\ UNCHANGED alpha
            ELSE IF c \in {"r", "R"}
              THEN /\ flag_refresh'
                   /\ UNCHANGED <<flag_next, flag_quit, gui_predictions>>
            ELSE IF c \in {"n", "N"}
              THEN /\ flag_next'
                   /\ UNCHANGED <<flag_refresh, flag_quit, gui_predictions>>
            ELSE IF c \in {"q", "Q"}
              THEN /\ flag_quit'
                   /\ UNCHANGED <<flag_refresh, flag_next, gui_predictions>>
            ELSE /\ FlagsKept
                 /\ UNCHANGED <<alpha, gui_predictions>>

C23_KeyPressFrame == [][C23_Step]_vars

(* ---------------------------------------------------------------------- *)
(* C25                                                                    *)
(* ---------------------------------------------------------------------- *)
\* Multiples of m around the canvas.
MultiplesOf(m, n) == { k * m : k \in -1 .. n + 1 }

\* The rectangle out has corners on the tile lattice, contains the rectangle
\* rect, and every lattice rectangle containing rect contains out.
SmallestLatticeCover(rect, out) ==
    /\ out[1] \in MultiplesOf(sub_w, MaxGuiCols)
    /\ out[3] \in MultiplesOf(sub_w, MaxGuiCols)
    /\ out[2] \in MultiplesOf(sub_h, MaxGuiRows)
    /\ out[4] \in MultiplesOf(sub_h, MaxGuiRows)
    /\ out[1] <= rect[1] /\ rect[3] <= out[3]
    /\ out[2] <= rect[2] /\ rect[4] <= out[4]
    /\ \A a \in MultiplesOf(sub_w, MaxGuiCols) : a <= rect[1] => a <= out[1]
    /\ \A a \in MultiplesOf(sub_w, MaxGuiCols) : rect[3] <= a => out[3] <= a
    /\ \A a \in MultiplesOf(sub_h, MaxGuiRows) : a <= rect[2] => a <= out[2]
    /\ \A a \in MultiplesOf(sub_h, MaxGuiRows) : rect[4] <= a => out[4] <= a

\* Tile (r, c) and the rectangle rect share more than a boundary line.
Overlaps(rect, r, c) ==
    /\ rect[1] < (c + 1) * sub_w /\ c * sub_w < rect[3]
    /\ rect[2] < (r + 1) * sub_h /\ r * sub_h < rect[4]

\* The tiles of the index range sel = (x1, y1, x2, y2).
SelectedTiles(sel) ==
    { t \in (0 .. MaxGuiRows) \X (0 .. MaxGuiCols) :
        sel[2] <= t[1] /\ t[1] < sel[4] /\ sel[1] <= t[2] /\ t[2] < sel[3] }

\* The drag rectangle of a release at (x, y).
DragRect(x, y) ==
    << Min2(bulk_select_initial[1], x), Min2(bulk_select_initial[2], y),
       Max2(bulk_select_initial[1], x), Max2(bulk_select_initial[2], y) >>

\* The outline of a drag rectangle inside the canvas is its smallest cover
\* by whole tiles.
C25_OutlineStep ==
    \A x \in GuiXs, y \in GuiYs :
        mouse_left_release(x, y) /\ DragRect(x, y)[1] >= 0 /\ DragRect(x, y)[2] >= 0
            => SmallestLatticeCover(DragRect(x, y), outline_rect')

\* The index range selected covers every tile the drag rectangle overlaps,
\* and at least one tile.
C25_CoverStep ==
    \A x \in GuiXs, y \in GuiYs :
        mouse_left_release(x, y) /\ DragRect(x, y)[1] >= 0 /\ DragRect(x, y)[2] >= 0
            => /\ \A t \in (0 .. MaxGuiRows) \X (0 .. MaxGuiCols) :
                     Overlaps(DragRect(x, y), t[1], t[2])
                        => t \in SelectedTiles(selected_prediction_i')
               /\ SelectedTiles(selected_prediction_i') # {}

\* C25: for 0 <= x1 <= x2 and 0 <= y1 <= y2 get_outline_rectangle_coordinates
\* returns the smallest rectangle with corners on multiples of sub_w and
\* sub_h that contains the given one; hence the index range set by
\* mouse_left_release covers every tile the drag rectangle overlaps and at
\* least one tile.
C25_OutlineCoversSelection == [][C25_OutlineStep /\ C25_CoverStep]_vars

(* ---------------------------------------------------------------------- *)
(* C21                                                                    *)
(* ---------------------------------------------------------------------- *)
\* The pairs (sub_i, img_i) that exist and lie at or after the saved
\* position in subsection-major order.
PairsFromSavedPosition ==
    { q \in (0 .. MaxFactor * MaxFactor - 1) \X (0 .. img_n - 1) :
        /\ q[1] < sub_n(q[2])
        /\ \/ q[1] = prev_sub_i /\ q[2] >= prev_img_i
           \/ q[1] > prev_sub_i }

VisitedPairs == { << visited[n][1], visited[n][2] >> : n \in DOMAIN visited }

SubsectionMajor ==
    \A m, n \in DOMAIN visited :
        m < n => \/ visited[m][1] < visited[n][1]
                 \/ visited[m][1] = visited[n][1] /\ visited[m][2] < visited[n][2]

\* C21: a session resumed from (prev_img_i, prev_sub_i) and never quit has
\* visited, in subsection-major order, every existing pair (sub_i, img_i)
\* with sub_i = prev_sub_i and img_i >= prev_img_i or with sub_i > prev_sub_i,
\* each one shown or skipped as empty, when its loops are exhausted.
C21_ResumeVisitsEveryLaterPair ==
    lpc = "done" /\ ~flag_quit =>
        /\ VisitedPairs = PairsFromSavedPosition
        /\ SubsectionMajor
        /\ \A n \in DOMAIN visited : visited[n][3] \in {"shown", "skipped"}

(* ---------------------------------------------------------------------- *)
(* C22                                                                    *)
(* ---------------------------------------------------------------------- *)
\* C22: whenever start_interactive_session has returned into the wait loop,
\* at least one of flag_refresh, flag_next, flag_quit of the current session
\* is True, however the window was closed.
C22_SessionReturnsWithAFlag ==
    lpc \in {"wait", "wait_next"} => flag_refresh \/ flag_next \/ flag_quit

(* ---------------------------------------------------------------------- *)
(* C26                                                                    *)
(* ---------------------------------------------------------------------- *)
\* The smallest per-class count of the labels y, 0 .. cn - 1 being the
\* classes.
SmallestCount(y, cn) ==
    CHOOSE m \in 0 .. Len(y) :
        /\ \A c \in 0 .. cn - 1 : m <= CountOf(y, c)
        /\ \E c \in 0 .. cn - 1 : m = CountOf(y, c)

\* The returned dataset <<bx, by>> is balanced out of the input x, y: every
\* class occurs m times, it has m * cn samples, and its positions are filled
\* one by one, in order, with distinct pairs of the input.
BalancedFrom(x, y, cn, bx, by) ==
    LET m == SmallestCount(y, cn)
    IN  /\ \A c \in 0 .. cn - 1 : CountOf(by, c) = m
        /\ Len(bx) = m * cn
        /\ Len(by) = m * cn
        /\ \E f \in [1 .. m * cn -> 1 .. Len(x)] :
             /\ \A p \in 1 .. m * cn : bx[p] = x[f[p]] /\ by[p] = y[f[p]]
             /\ \A p, q \in 1 .. m * cn : p < q => f[p] < f[q]

\* C26 (as stated): for labels within [0, class_n), balance_dataset returns
\* a dataset in which every class occurs exactly m times, m the smallest
\* per-class count: m * class_n samples, each an (x, y) pair of the shuffled
\* input, in their relative order, no sample used twice.
C26_EveryCallReturnsBalanced ==
    bpc \in {"returned", "ValueError"} =>
        /\ bpc = "returned"
        /\ BalancedFrom(bal_x, bal_y, bal_class_n, balanced[1], balanced[2])

\* C26 (amended): the same for class_n >= 1; with class_n = 0 the call
\* raises ValueError.
C26_BalancedForPositiveClassN ==
    /\ bpc \in {"returned", "ValueError"} /\ bal_class_n >= 1 =>
          /\ bpc = "returned"
          /\ BalancedFrom(bal_x, bal_y, bal_class_n, balanced[1], balanced[2])
    /\ bpc \in {"returned", "ValueError"} /\ bal_class_n = 0 => bpc = "ValueError"

\* A call with two classes has dropped a sample of the larger class.
C26_Witness ==
    /\ bpc = "returned"
    /\ bal_class_n = 2
    /\ Len(balanced[1]) >= 2
    /\ Len(balanced[1]) < Len(bal_x)

====
